---- MODULE Spec2Model ----
(***************************************************************************)
(* Scheduled dispatch of outreach e-mails.                                 *)
(*                                                                         *)
(* The producer (app.py, the interactive session) inserts rows into the    *)
(* scheduled_emails table; the coordinator (scheduler.py) polls the table, *)
(* hands every due row to send_email and records the outcome in            *)
(* scheduled_emails.status and in email_log.  Both share one SQLite file.   *)
(*                                                                         *)
(* Time is counted in ticks finer than a second: datetime.now() has        *)
(* sub-second resolution, while every timestamp that reaches the store is  *)
(* formatted with "%Y-%m-%d %H:%M:%S" (whole seconds, fixed width) and is  *)
(* compared by SQLite as text.                                             *)
(***************************************************************************)
EXTENDS Naturals, Sequences, FiniteSets, TLC

\* ---------------------------------------------------------------- bounds
MaxTasks == 2
MaxSec == 2
TicksPerSec == 2
Radix == 2
MaxFaults == 1
MaxLogged == 1
MaxConfigErrors == 1
MaxListed == 2
MaxSeed == 1
MaxRows == 1

MaxTime == MaxSec * TicksPerSec + (TicksPerSec - 1)

\* The coordinator processes that may run against the one database file.
Coord == {1, 2}

VARIABLES
    scheduled_emails,   \* the table: row id = position; scheduled_time, status
    email_log,          \* the table email_log, in insertion order
    now,                \* the wall clock, in ticks
    lock,               \* SQLite write lock: 0 free, else the coordinator in a transaction
    pc,                 \* each coordinator's position in main / process_scheduled_emails
    due_emails,         \* each coordinator's local due_emails (row ids, fetch order)
    results,            \* each coordinator's (success, message) per handled entry of due_emails
    config,             \* each coordinator's load_config(): TRUE iff both credentials are set
    attempts,           \* per row: how often send_email was called for it (history)
    faults,             \* interruptions and store errors so far (history, bounded)
    config_errors       \* polls ended by a config.json that holds no object (history, bounded)

\* The interactive session (app.py): the audit of one website and the e-mail
\* composed from it, and the bulk import.
VARIABLES
    company_name,       \* the form's Company Name
    niche,              \* the form's Niche/Industry
    homepage_text,      \* the form's Homepage Text
    services_text,      \* the form's Services Page Text
    issues,             \* the list analyze_website returned, None before a call
    generated_result,   \* st.session_state['generated_result']
    hashseed,           \* the interpreter's string hash randomisation, fixed per process
    outputs,            \* every (subject, body) generate_email returned so far (history)
    df,                 \* the uploaded CSV: the rows still to be processed
    batch_results,      \* the results list of the bulk import
    analysed            \* the homepage texts analyze_website was called with (history)

dispatchVars == <<scheduled_emails, email_log, now, lock, pc, due_emails, results, config,
                  attempts, faults, config_errors>>

auditVars == <<company_name, niche, homepage_text, services_text, issues, generated_result,
               hashseed, outputs, df, batch_results, analysed>>

vars == <<dispatchVars, auditVars>>

\* ------------------------------------------------------- values and text
Pending == [tag |-> "Pending", reason |-> ""]

CredentialsMessage == "Gmail credentials not configured in config.json"
SmtpMessage == "str(e)"

\* datetime.strftime("%Y-%m-%d %H:%M:%S"): the sub-second part is dropped and the
\* whole seconds are written as a fixed-width, zero-padded digit string.
strftime(t) ==
    LET s == t \div TicksPerSec
    IN  <<s \div Radix, s % Radix>>

\* The instant (in ticks) a stored timestamp text denotes.
TextTicks(str) == (str[1] * Radix + str[2]) * TicksPerSec

\* The comparison written as < in place of <=.
TextLeqStrict(a, b) ==
    \E i \in 1..Len(a) :
        /\ \A j \in 1..(i - 1) : a[j] = b[j]
        /\ a[i] < b[i]

\* SQLite's <= on two TEXT values of equal length: byte-wise, left to right.
TextLeq(a, b) ==
    \/ a = b
    \/ \E i \in 1..Len(a) :
          /\ \A j \in 1..(i - 1) : a[j] = b[j]
          /\ a[i] < b[i]

\* The comparison written the wrong way round: ? <= scheduled_time.
IsDueReversed(row, nowText) ==
    /\ TextLeq(nowText, row.scheduled_time)
    /\ row.status = Pending

\* WHERE scheduled_time <= ? AND status = 'Pending'
IsDue(row, nowText) ==
    /\ TextLeq(row.scheduled_time, nowText)
    /\ row.status = Pending

\* cursor.fetchall() of the SELECT: the ids of the due rows, in rowid order.
ListDue(nowText) ==
    SelectSeq([i \in 1..Len(scheduled_emails) |-> i],
              LAMBDA i : IsDue(scheduled_emails[i], nowText))

\* send_email: what a call that returns can return, given the loaded config.
SendResults(cfg) ==
    IF ~cfg
    THEN {[success |-> FALSE, message |-> CredentialsMessage]}
    ELSE {[success |-> TRUE, message |-> "Sent successfully"],
          [success |-> FALSE, message |-> SmtpMessage]}

\* new_status = 'Sent' if success else f'Failed: {message}'
NewStatus(r) ==
    IF r.success
    THEN [tag |-> "Sent", reason |-> ""]
    ELSE [tag |-> "Failed", reason |-> r.message]

\* The row inserted into email_log; email stands for the fields copied from the
\* scheduled row (company_name, website, recipient, niche, subject, body).
LogRow(id, r) ==
    [email  |-> id,
     status |-> IF r.success THEN "Yes (Scheduled)" ELSE "Failed (Scheduled)",
     notes  |-> IF r.success THEN "" ELSE r.message]

\* Python's None and a value that is present.
None == <<>>
Some(x) == <<x>>

\* No interactive session has entered, generated or uploaded anything.
SessionIdle ==
    /\ company_name = <<>>
    /\ niche = <<>>
    /\ homepage_text = <<>>
    /\ services_text = <<>>
    /\ issues = None
    /\ generated_result = None
    /\ hashseed = 0
    /\ outputs = {}
    /\ df = <<>>
    /\ batch_results = <<>>
    /\ analysed = {}

\* ------------------------------------------------------------------ Init
Init ==
    /\ scheduled_emails = <<>>
    /\ email_log = <<>>
    /\ now = 0
    /\ lock = 0
    /\ pc = [c \in Coord |-> "stopped"]
    /\ due_emails = [c \in Coord |-> <<>>]
    /\ results = [c \in Coord |-> <<>>]
    /\ config = [c \in Coord |-> FALSE]
    /\ attempts = [i \in 1..MaxTasks |-> 0]
    /\ faults = 0
    /\ config_errors = 0
    /\ SessionIdle

\* Time passes.
Tick ==
    /\ now < MaxTime
    /\ now' = now + 1
    /\ UNCHANGED <<scheduled_emails, email_log, lock, pc, due_emails, results, config,
                   attempts, faults>>
    /\ UNCHANGED config_errors
    /\ UNCHANGED auditVars

\* ------------------------------------------------- producer (app.py)
\* if scheduled_datetime <= datetime.now(): reject
NotFuture(scheduled_datetime, t) == scheduled_datetime <= t

\* The sub-second parts the time widget can hold: 0 when the user picked a time,
\* or that of its default value, datetime.now() of an earlier or the same instant
\* with hour and minute replaced.
WidgetFractions == {0} \cup {r % TicksPerSec : r \in 0..now}

\* The "Schedule Email" button handler followed by schedule_email_db.  The button
\* is disabled until the e-mail is approved, so a click comes with approved = True.
\* sec and frac are the picked date and time; recipient says whether an address
\* was entered.  A rejected request shows a message and writes nothing; so does an
\* INSERT that finds the database locked by a coordinator's open transaction.
ScheduleClicked(recipient, sec, frac) ==
    LET scheduled_datetime == sec * TicksPerSec + frac
    IN  /\ Len(scheduled_emails) < MaxTasks
        /\ IF ~recipient
           THEN UNCHANGED scheduled_emails
           ELSE IF NotFuture(scheduled_datetime, now)
           THEN UNCHANGED scheduled_emails
           ELSE IF lock # 0
           THEN UNCHANGED scheduled_emails
           ELSE scheduled_emails' =
                    Append(scheduled_emails,
                           [scheduled_time |-> strftime(scheduled_datetime),
                            status |-> Pending])
        /\ UNCHANGED <<email_log, now, lock, pc, due_emails, results, config,
                       attempts, faults>>
        /\ UNCHANGED config_errors
        /\ UNCHANGED auditVars

Schedule ==
    \E recipient \in BOOLEAN, sec \in 0..MaxSec, frac \in WidgetFractions :
        ScheduleClicked(recipient, sec, frac)

\* ------------------------------------------- coordinator (scheduler.py)
\* python scheduler.py is started (again).
Start(c) ==
    /\ pc[c] = "stopped"
    /\ pc' = [pc EXCEPT ![c] = "sleep"]
    /\ UNCHANGED <<scheduled_emails, email_log, now, lock, due_emails, results, config,
                   attempts, faults>>
    /\ UNCHANGED config_errors
    /\ UNCHANGED auditVars

\* The head of process_scheduled_emails: now is formatted, the due rows are fetched
\* and, when there are any, the configuration is loaded.  With nothing due the
\* function closes the connection and returns 0, and main sleeps again.
Select(c) ==
    /\ pc[c] = "sleep"
    /\ LET due == ListDue(strftime(now))
       IN  /\ due_emails' = [due_emails EXCEPT ![c] = due]
           /\ results' = [results EXCEPT ![c] = <<>>]
           /\ IF due = <<>>
              THEN UNCHANGED <<pc, config>>
              ELSE /\ pc' = [pc EXCEPT ![c] = "send"]
                   /\ \E cfg \in BOOLEAN : config' = [config EXCEPT ![c] = cfg]
    /\ UNCHANGED <<scheduled_emails, email_log, now, lock, attempts, faults>>
    /\ UNCHANGED config_errors
    /\ UNCHANGED auditVars

\* The row the loop is at: the first entry of due_emails without a result.
Current(c) == due_emails[c][Len(results[c]) + 1]

\* success, message = send_email(...), for a call that returns.
SendReturns(c) ==
    /\ pc[c] = "send"
    /\ attempts' = [attempts EXCEPT ![Current(c)] = @ + 1]
    /\ \E r \in SendResults(config[c]) :
          results' = [results EXCEPT ![c] = Append(@, r)]
    /\ pc' = [pc EXCEPT ![c] = "record"]
    /\ UNCHANGED <<scheduled_emails, email_log, now, lock, due_emails, config, faults>>
    /\ UNCHANGED config_errors
    /\ UNCHANGED auditVars

\* smtplib.SMTP_SSL('smtp.gmail.com', 465) is given no timeout: a connection that
\* the peer never answers blocks the call for good.
SendHangs(c) ==
    /\ pc[c] = "send"
    /\ config[c]
    /\ attempts' = [attempts EXCEPT ![Current(c)] = @ + 1]
    /\ pc' = [pc EXCEPT ![c] = "hung"]
    /\ UNCHANGED <<scheduled_emails, email_log, now, lock, due_emails, results, config,
                   faults>>
    /\ UNCHANGED config_errors
    /\ UNCHANGED auditVars

\* The loop left with break after an entry whose delivery failed.
AfterRecordBreak(c) ==
    IF Len(results[c]) = Len(due_emails[c]) \/ ~results[c][Len(results[c])].success
    THEN "commit"
    ELSE "send"

\* Where the loop goes after an entry's UPDATE and INSERT: on to the next entry,
\* whatever the entry's outcome, and to conn.commit() after the last.
AfterRecord(c) ==
    IF Len(results[c]) = Len(due_emails[c]) THEN "commit" ELSE "send"

\* The UPDATE of the row's status and the INSERT into email_log, both inside the
\* connection's still open transaction (one step: nothing of either is visible to
\* another connection before the commit, and a failure of either rolls back both).  The first write of a poll takes SQLite's
\* write lock, which it gets only while no other connection holds it.
Record(c) ==
    /\ pc[c] = "record"
    /\ lock \in {0, c}
    /\ lock' = c
    /\ pc' = [pc EXCEPT ![c] = AfterRecord(c)]
    /\ UNCHANGED <<scheduled_emails, email_log, now, due_emails, results, config,
                   attempts, faults>>
    /\ UNCHANGED config_errors
    /\ UNCHANGED auditVars

\* scheduled_emails after the transaction's UPDATEs: UPDATE ... SET status = ?
\* WHERE id = ?, for each handled entry in turn.
Updated(c) ==
    [i \in 1..Len(scheduled_emails) |->
        IF \E k \in 1..Len(results[c]) : due_emails[c][k] = i
        THEN [scheduled_emails[i] EXCEPT
                 !.status = NewStatus(results[c][
                     CHOOSE k \in 1..Len(results[c]) : due_emails[c][k] = i])]
        ELSE scheduled_emails[i]]

\* The transaction without its INSERTs into email_log.
InsertedNothing(c) == <<>>

\* The rows the transaction inserted into email_log, in order.
Inserted(c) ==
    [k \in 1..Len(results[c]) |-> LogRow(due_emails[c][k], results[c][k])]

\* conn.commit(): the batch's writes reach the database together; conn.close() and
\* the return end the poll, and main sleeps.
Commit(c) ==
    /\ pc[c] = "commit"
    /\ scheduled_emails' = Updated(c)
    /\ email_log' = email_log \o Inserted(c)
    /\ lock' = 0
    /\ pc' = [pc EXCEPT ![c] = "sleep"]
    /\ due_emails' = [due_emails EXCEPT ![c] = <<>>]
    /\ results' = [results EXCEPT ![c] = <<>>]
    /\ config' = [config EXCEPT ![c] = FALSE]
    /\ UNCHANGED <<now, attempts, faults>>
    /\ UNCHANGED config_errors
    /\ UNCHANGED auditVars

\* The write lock once the coordinator's connection is gone.
Release(c) == IF lock = c THEN 0 ELSE lock

\* sqlite3 raises from the UPDATE, the INSERT or the commit (database is locked, I/O
\* error): the exception leaves process_scheduled_emails, main prints the error and
\* sleeps, and the connection is dropped with its transaction rolled back before
\* the next poll (here at once: other connections may get the lock from then on).
StoreError(c) ==
    /\ pc[c] \in {"record", "commit"}
    /\ faults < MaxFaults
    /\ faults' = faults + 1
    /\ lock' = Release(c)
    /\ pc' = [pc EXCEPT ![c] = "sleep"]
    /\ due_emails' = [due_emails EXCEPT ![c] = <<>>]
    /\ results' = [results EXCEPT ![c] = <<>>]
    /\ config' = [config EXCEPT ![c] = FALSE]
    /\ UNCHANGED <<scheduled_emails, email_log, now, attempts>>
    /\ UNCHANGED config_errors
    /\ UNCHANGED auditVars

\* Ctrl+C or a kill, at any point of the loop: the process ends and whatever its
\* connection had not committed is rolled back.
Interrupt(c) ==
    /\ pc[c] \notin {"stopped", "absent"}
    /\ faults < MaxFaults
    /\ faults' = faults + 1
    /\ lock' = Release(c)
    /\ pc' = [pc EXCEPT ![c] = "stopped"]
    /\ due_emails' = [due_emails EXCEPT ![c] = <<>>]
    /\ results' = [results EXCEPT ![c] = <<>>]
    /\ config' = [config EXCEPT ![c] = FALSE]
    /\ UNCHANGED <<scheduled_emails, email_log, now, attempts>>
    /\ UNCHANGED config_errors
    /\ UNCHANGED auditVars

\* ------------------------------------------------------- specifications
Next ==
    \/ Tick
    \/ Schedule
    \/ \E c \in Coord : Start(c)
    \/ \E c \in Coord : Select(c)
    \/ \E c \in Coord : SendReturns(c)
    \/ \E c \in Coord : SendHangs(c)
    \/ \E c \in Coord : Record(c)
    \/ \E c \in Coord : Commit(c)
    \/ \E c \in Coord : StoreError(c)
    \/ \E c \in Coord : Interrupt(c)

\* Any number of scheduler.py processes, started and stopped at will.
Spec == Init /\ [][Next]_vars

\* One scheduler.py process only: the second is never started.
InitSingle ==
    /\ scheduled_emails = <<>>
    /\ email_log = <<>>
    /\ now = 0
    /\ lock = 0
    /\ pc = [c \in Coord |-> IF c = 1 THEN "stopped" ELSE "absent"]
    /\ due_emails = [c \in Coord |-> <<>>]
    /\ results = [c \in Coord |-> <<>>]
    /\ config = [c \in Coord |-> FALSE]
    /\ attempts = [i \in 1..MaxTasks |-> 0]
    /\ faults = 0
    /\ config_errors = 0
    /\ SessionIdle

SpecSingle == InitSingle /\ [][Next]_vars

\* ------------------------------------------------------------ vocabulary
Rows == 1..Len(scheduled_emails)

Status(i) == scheduled_emails[i].status

\* The email_log rows written for scheduled row i.
LogOf(i) == {k \in 1..Len(email_log) : email_log[k].email = i}

\* Some running poll has row i in its batch.
InBatch(i) == \E c \in Coord : \E k \in 1..Len(due_emails[c]) : due_emails[c][k] = i

\* C1: two coordinators polling one store with one due Pending row make exactly one
\* delivery attempt and one log entry for it, in every interleaving (stated for runs
\* without interruption or store error, for the part a finite run can refute: never
\* more than one attempt, never more than one log entry).
C1_OneDeliveryPerRow ==
    (faults = 0 /\ Len(scheduled_emails) = 1) =>
        /\ attempts[1] <= 1
        /\ Cardinality(LogOf(1)) <= 1

\* C2: once a row's status is Sent or Failed, no later status write by any
\* coordinator changes it.
C2_StatusChangesAtMostOnce ==
    [][\A i \in Rows : Status(i) # Pending => scheduled_emails'[i].status = Status(i)]_vars

\* C3: with a single coordinator, whatever the polls, interruptions, store errors and
\* restarts, send_email is called at most once for each scheduled row.
C3_AtMostOneSend ==
    \A i \in 1..MaxTasks : attempts[i] <= 1

\* The ids a fetched batch holds.
Range(seq) == {seq[k] : k \in 1..Len(seq)}

\* C4: the set a poll selects at time now is exactly the set of rows with status
\* Pending whose scheduled_time is at or before now: none that is later than now,
\* none that is Sent or Failed, and every Pending row that is not later than now.
C4_ListDueExact ==
    Range(ListDue(strftime(now))) =
        {i \in Rows : Status(i) = Pending /\ TextTicks(scheduled_emails[i].scheduled_time) <= now}

\* A poll has just selected one of two rows and left the other.
C4_Witness ==
    \E c \in Coord :
        /\ pc[c] = "send"
        /\ results[c] = <<>>
        /\ due_emails[c] = ListDue(strftime(now))
        /\ Len(due_emails[c]) = 1
        /\ Len(scheduled_emails) = 2

C6_ProcessedTaskRecorded ==
    \A i \in Rows :
        (attempts[i] > 0 /\ ~InBatch(i)) =>
            /\ Status(i) # Pending
            /\ Cardinality(LogOf(i)) = 1
            /\ \A k \in LogOf(i) :
                  IF Status(i).tag = "Sent"
                  THEN email_log[k].status = "Yes (Scheduled)"
                  ELSE /\ email_log[k].status = "Failed (Scheduled)"
                       /\ email_log[k].notes = Status(i).reason

\* C7: a task whose status has become Failed is never handed to the transport
\* again, and no poll selects it.
C7_FailedNeverSentAgain ==
    [][\A i \in Rows :
          Status(i).tag = "Failed" =>
              /\ attempts'[i] = attempts[i]
              /\ \A c \in Coord : Select(c) => i \notin Range(due_emails'[c])]_vars

\* The program with a transport whose calls all return.
NextReturning ==
    \/ Tick
    \/ Schedule
    \/ \E c \in Coord : Start(c)
    \/ \E c \in Coord : Select(c)
    \/ \E c \in Coord : SendReturns(c)
    \/ \E c \in Coord : Record(c)
    \/ \E c \in Coord : Commit(c)
    \/ \E c \in Coord : StoreError(c)
    \/ \E c \in Coord : Interrupt(c)

\* Time passes; a stopped scheduler.py is started again; main's while True loop
\* polls again after every sleep and a poll under way takes its next step.
Fairness ==
    /\ WF_vars(Tick)
    /\ \A c \in Coord :
          /\ WF_vars(Start(c))
          /\ WF_vars(Select(c))
          /\ WF_vars(SendReturns(c))
          /\ WF_vars(Record(c))
          /\ WF_vars(Commit(c))

FairSpec == Init /\ [][NextReturning]_vars /\ Fairness

FairSingle == InitSingle /\ [][NextReturning]_vars /\ Fairness

\* C8: under fair scheduling of the coordinator loop, restarts after interruptions
\* included, and a transport whose calls return, no row stays Pending for ever:
\* every row created Pending is Sent or Failed at some later time.
C8_NoRowPendingForever ==
    \A i \in 1..MaxTasks : []<>(~(i \in Rows /\ Status(i) = Pending))

\* A row got its terminal status only after a poll that had sent it was cut short.
C8_Witness ==
    \E i \in Rows : Status(i) # Pending /\ attempts[i] = 2 /\ faults > 0

\* What the coordinator does by itself, as opposed to what is done to it.
OwnStep(c) ==
    \/ Select(c)
    \/ SendReturns(c)
    \/ Record(c)
    \/ Commit(c)
    \/ StoreError(c)

\* C9: a transport call that does not return by itself is cut off by a timeout and
\* counted as a failure, so the poll goes on with the tasks after it and ends.
C9_StuckCallIsCutOff ==
    \A c \in Coord : pc[c] = "hung" => ENABLED OwnStep(c)

\* C10: a delivery failure of one task does not abort the batch: when the poll ends
\* every task of the batch has been attempted in it and has the terminal status of
\* its own outcome, and after a failed entry the loop goes on to the next.
C10_FailureDoesNotAbortBatch ==
    [][\A c \in Coord :
          /\ (pc[c] = "commit" /\ pc'[c] = "sleep" /\ faults' = faults) =>
                \A k \in 1..Len(due_emails[c]) :
                    /\ k <= Len(results[c])
                    /\ attempts[due_emails[c][k]] > 0
                    /\ scheduled_emails'[due_emails[c][k]].status = NewStatus(results[c][k])
                    /\ scheduled_emails'[due_emails[c][k]].status # Pending
          /\ (/\ pc[c] = "record"
              /\ pc'[c] # "record"
              /\ faults' = faults
              /\ Len(results[c]) < Len(due_emails[c])) =>
                pc'[c] = "send"]_vars

\* A batch of two is about to be committed: the first delivery failed, the second
\* was attempted all the same and succeeded.
C10_Witness ==
    \E c \in Coord :
        /\ pc[c] = "commit"
        /\ Len(results[c]) = 2
        /\ ~results[c][1].success
        /\ results[c][2].success

\* ------------------------------------ interactive send and log (app.py)
\* send_email_gmail: what a call that returns can return.
GmailResults ==
    {[success |-> TRUE, message |-> "Email sent successfully!"],
     [success |-> FALSE,
      message |-> "Gmail credentials not configured. Set them in Settings (sidebar) or in config.json"],
     [success |-> FALSE, message |-> "Gmail authentication failed. Check your App Password."],
     [success |-> FALSE, message |-> "Failed to send: str(e)"]}

\* email_log with every earlier row dropped for the new one.
log_email_replacing(sent_status, notes) ==
    <<[email |-> 0, status |-> sent_status, notes |-> notes]>>

\* log_email: email_log after its INSERT and commit.  email 0 stands for the fields
\* taken from the session's result, which is no scheduled row.
log_email(sent_status, notes) ==
    Append(email_log, [email |-> 0, status |-> sent_status, notes |-> notes])

\* The rows the interactive session has written to email_log.
Logged == Cardinality({k \in 1..Len(email_log) : email_log[k].email = 0})

\* The "Send via Gmail" button handler; the button is disabled until the e-mail is
\* approved.  Without a recipient nothing is sent or logged; else the outcome of
\* send_email_gmail is logged, unless the INSERT finds the database locked by a
\* coordinator's open transaction.
SendClicked(recipient) ==
    /\ Logged < MaxLogged
    /\ IF ~recipient
       THEN UNCHANGED email_log
       ELSE \E r \in GmailResults :
               IF lock # 0
               THEN UNCHANGED email_log
               ELSE IF r.success
               THEN email_log' = log_email("Yes", "")
               ELSE email_log' = log_email("Failed", r.message)
    /\ UNCHANGED <<scheduled_emails, now, lock, pc, due_emails, results, config,
                   attempts, faults>>
    /\ UNCHANGED config_errors
    /\ UNCHANGED auditVars

\* The "Save to Log Only" button handler.
LogOnlyClicked ==
    /\ Logged < MaxLogged
    /\ IF lock # 0
       THEN UNCHANGED email_log
       ELSE email_log' = log_email("No - Logged Only", "")
    /\ UNCHANGED <<scheduled_emails, now, lock, pc, due_emails, results, config,
                   attempts, faults>>
    /\ UNCHANGED config_errors
    /\ UNCHANGED auditVars

\* Every operation on the store: the coordinator's and the producer's.
NextStore ==
    \/ Next
    \/ \E recipient \in BOOLEAN : SendClicked(recipient)
    \/ LogOnlyClicked

SpecStore == InitSingle /\ [][NextStore]_vars

\* C20: email_log is append-only and scheduled rows are never removed: every
\* operation of the producer and of the coordinator leaves the existing email_log
\* rows as they are and only adds rows, deletes no scheduled_emails row and changes
\* no field of a row other than status.
C20_LogAppendOnlyRowsKept ==
    [][/\ Len(email_log') >= Len(email_log)
       /\ SubSeq(email_log', 1, Len(email_log)) = email_log
       /\ Len(scheduled_emails') >= Len(scheduled_emails)
       /\ \A i \in Rows :
             /\ DOMAIN scheduled_emails'[i] = DOMAIN scheduled_emails[i]
             /\ \A f \in DOMAIN scheduled_emails[i] \ {"status"} :
                   scheduled_emails'[i][f] = scheduled_emails[i][f]]_vars

\* The log holds a row of the interactive session and, after it, a row of a
\* scheduled send whose task got its terminal status.
C20_Witness ==
    \E k \in 1..Len(email_log) :
        /\ email_log[1].email = 0
        /\ k > 1
        /\ email_log[k].email \in Rows
        /\ Status(email_log[k].email) # Pending

\* --------------------------------- a config.json that holds no object
\* load_config returns whatever JSON value config.json holds; for a value that is
\* no object (a list, a string, a number, null) config.get raises AttributeError in
\* the first send_email call of the batch, before its try.  The exception leaves
\* process_scheduled_emails with nothing written; main prints it and sleeps.
ConfigError(c) ==
    /\ pc[c] = "send"
    /\ results[c] = <<>>
    /\ config_errors < MaxConfigErrors
    /\ config_errors' = config_errors + 1
    /\ attempts' = [attempts EXCEPT ![Current(c)] = @ + 1]
    /\ pc' = [pc EXCEPT ![c] = "sleep"]
    /\ due_emails' = [due_emails EXCEPT ![c] = <<>>]
    /\ results' = [results EXCEPT ![c] = <<>>]
    /\ config' = [config EXCEPT ![c] = FALSE]
    /\ UNCHANGED <<scheduled_emails, email_log, now, lock, faults>>
    /\ UNCHANGED auditVars

\* The coordinator with every error a poll can raise.
NextLoop ==
    \/ Next
    \/ \E c \in Coord : ConfigError(c)

SpecLoop == InitSingle /\ [][NextLoop]_vars

FairLoop == SpecLoop /\ Fairness

\* =========================================================================
\* The audit of a website's text and the e-mail composed from it (app.py).
\* A str is the sequence of its characters.
\* =========================================================================
UpperLetters ==
    <<"A", "B", "C", "D", "E", "F", "G", "H", "I", "J", "K", "L", "M", "N", "O", "P", "Q",
      "R", "S", "T", "U", "V", "W", "X", "Y", "Z">>

LowerLetters ==
    <<"a", "b", "c", "d", "e", "f", "g", "h", "i", "j", "k", "l", "m", "n", "o", "p", "q",
      "r", "s", "t", "u", "v", "w", "x", "y", "z">>

LowerChar(ch) ==
    IF \E k \in 1..Len(UpperLetters) : UpperLetters[k] = ch
    THEN LowerLetters[CHOOSE k \in 1..Len(UpperLetters) : UpperLetters[k] = ch]
    ELSE ch

UpperChar(ch) ==
    IF \E k \in 1..Len(LowerLetters) : LowerLetters[k] = ch
    THEN UpperLetters[CHOOSE k \in 1..Len(LowerLetters) : LowerLetters[k] = ch]
    ELSE ch

\* str.lower()
lower(s) == [i \in 1..Len(s) |-> LowerChar(s[i])]

\* str.capitalize(): the first character upper-cased, the rest lower-cased.
capitalize(s) ==
    [i \in 1..Len(s) |-> IF i = 1 THEN UpperChar(s[i]) ELSE LowerChar(s[i])]

\* str.rstrip(ch): every trailing ch removed.
RECURSIVE rstrip(_, _)
rstrip(s, ch) ==
    IF Len(s) > 0 /\ s[Len(s)] = ch
    THEN rstrip(SubSeq(s, 1, Len(s) - 1), ch)
    ELSE s

\* str.startswith(prefix)
startswith(s, prefix) ==
    /\ Len(prefix) <= Len(s)
    /\ \A j \in 1..Len(prefix) : s[j] = prefix[j]

\* term in text: term occurs as a substring of text.
In(term, text) ==
    \E i \in 1..(Len(text) + 1 - Len(term)) :
        \A j \in 1..Len(term) : text[i + j - 1] = term[j]

\* any(word in text for word in words)
any(words, text) == \E k \in 1..Len(words) : In(words[k], text)

\* value_words = ['help', 'solve', 'achieve', 'result', 'outcome', 'benefit', 'save',
\* 'grow', 'increase']
value_words ==
    <<<<"h", "e", "l", "p">>, <<"s", "o", "l", "v", "e">>, <<"a", "c", "h", "i", "e", "v",
      "e">>, <<"r", "e", "s", "u", "l", "t">>, <<"o", "u", "t", "c", "o", "m", "e">>, <<"b",
      "e", "n", "e", "f", "i", "t">>, <<"s", "a", "v", "e">>, <<"g", "r", "o", "w">>, <<"i",
      "n", "c", "r", "e", "a", "s", "e">>>>

\* cta_words = ['contact', 'call', 'schedule', 'book', 'get started', 'free quote',
\* 'request', 'consultation']
cta_words ==
    <<<<"c", "o", "n", "t", "a", "c", "t">>, <<"c", "a", "l", "l">>, <<"s", "c", "h", "e", "d",
      "u", "l", "e">>, <<"b", "o", "o", "k">>, <<"g", "e", "t", " ", "s", "t", "a", "r", "t",
      "e", "d">>, <<"f", "r", "e", "e", " ", "q", "u", "o", "t", "e">>, <<"r", "e", "q", "u",
      "e", "s", "t">>, <<"c", "o", "n", "s", "u", "l", "t", "a", "t", "i", "o", "n">>>>

\* trust_words = ['years', 'experience', 'certified', 'guarantee', 'testimonial',
\* 'review', 'client', 'trusted', 'award']
trust_words ==
    <<<<"y", "e", "a", "r", "s">>, <<"e", "x", "p", "e", "r", "i", "e", "n", "c", "e">>, <<"c",
      "e", "r", "t", "i", "f", "i", "e", "d">>, <<"g", "u", "a", "r", "a", "n", "t", "e",
      "e">>, <<"t", "e", "s", "t", "i", "m", "o", "n", "i", "a", "l">>, <<"r", "e", "v", "i",
      "e", "w">>, <<"c", "l", "i", "e", "n", "t">>, <<"t", "r", "u", "s", "t", "e", "d">>,
      <<"a", "w", "a", "r", "d">>>>

\* diff_words = ['unique', 'only', 'different', 'unlike', 'specialized', 'exclusive',
\* 'proprietary']
diff_words ==
    <<<<"u", "n", "i", "q", "u", "e">>, <<"o", "n", "l", "y">>, <<"d", "i", "f", "f", "e", "r",
      "e", "n", "t">>, <<"u", "n", "l", "i", "k", "e">>, <<"s", "p", "e", "c", "i", "a", "l",
      "i", "z", "e", "d">>, <<"e", "x", "c", "l", "u", "s", "i", "v", "e">>, <<"p", "r", "o",
      "p", "r", "i", "e", "t", "a", "r", "y">>>>

\* contact_words = ['email', 'phone', '@', 'call us']
contact_words ==
    <<<<"e", "m", "a", "i", "l">>, <<"p", "h", "o", "n", "e">>, <<"@">>, <<"c", "a", "l", "l",
      " ", "u", "s">>>>

\* Homepage describes services but does not communicate clear outcomes or benefits for
\* clients.
IssueValueProp ==
    <<"H", "o", "m", "e", "p", "a", "g", "e", " ", "d", "e", "s", "c", "r", "i", "b", "e", "s",
      " ", "s", "e", "r", "v", "i", "c", "e", "s", " ", "b", "u", "t", " ", "d", "o", "e", "s",
      " ", "n", "o", "t", " ", "c", "o", "m", "m", "u", "n", "i", "c", "a", "t", "e", " ", "c",
      "l", "e", "a", "r", " ", "o", "u", "t", "c", "o", "m", "e", "s", " ", "o", "r", " ", "b",
      "e", "n", "e", "f", "i", "t", "s", " ", "f", "o", "r", " ", "c", "l", "i", "e", "n", "t",
      "s", ".">>

\* No clear call-to-action guiding visitors to take the next step.
IssueCta ==
    <<"N", "o", " ", "c", "l", "e", "a", "r", " ", "c", "a", "l", "l", "-", "t", "o", "-", "a",
      "c", "t", "i", "o", "n", " ", "g", "u", "i", "d", "i", "n", "g", " ", "v", "i", "s", "i",
      "t", "o", "r", "s", " ", "t", "o", " ", "t", "a", "k", "e", " ", "t", "h", "e", " ", "n",
      "e", "x", "t", " ", "s", "t", "e", "p", ".">>

\* Missing trust signals like testimonials, certifications, or experience indicators.
IssueTrust ==
    <<"M", "i", "s", "s", "i", "n", "g", " ", "t", "r", "u", "s", "t", " ", "s", "i", "g", "n",
      "a", "l", "s", " ", "l", "i", "k", "e", " ", "t", "e", "s", "t", "i", "m", "o", "n", "i",
      "a", "l", "s", ",", " ", "c", "e", "r", "t", "i", "f", "i", "c", "a", "t", "i", "o", "n",
      "s", ",", " ", "o", "r", " ", "e", "x", "p", "e", "r", "i", "e", "n", "c", "e", " ", "i",
      "n", "d", "i", "c", "a", "t", "o", "r", "s", ".">>

\* Services section lists offerings without explaining what sets the business apart.
IssueDifferentiation ==
    <<"S", "e", "r", "v", "i", "c", "e", "s", " ", "s", "e", "c", "t", "i", "o", "n", " ", "l",
      "i", "s", "t", "s", " ", "o", "f", "f", "e", "r", "i", "n", "g", "s", " ", "w", "i", "t",
      "h", "o", "u", "t", " ", "e", "x", "p", "l", "a", "i", "n", "i", "n", "g", " ", "w", "h",
      "a", "t", " ", "s", "e", "t", "s", " ", "t", "h", "e", " ", "b", "u", "s", "i", "n", "e",
      "s", "s", " ", "a", "p", "a", "r", "t", ".">>

\* Homepage content is too sparse to communicate value effectively.
IssueSparse ==
    <<"H", "o", "m", "e", "p", "a", "g", "e", " ", "c", "o", "n", "t", "e", "n", "t", " ", "i",
      "s", " ", "t", "o", "o", " ", "s", "p", "a", "r", "s", "e", " ", "t", "o", " ", "c", "o",
      "m", "m", "u", "n", "i", "c", "a", "t", "e", " ", "v", "a", "l", "u", "e", " ", "e", "f",
      "f", "e", "c", "t", "i", "v", "e", "l", "y", ".">>

\* Homepage is text-heavy without clear hierarchy, making it hard to scan quickly.
IssueDense ==
    <<"H", "o", "m", "e", "p", "a", "g", "e", " ", "i", "s", " ", "t", "e", "x", "t", "-", "h",
      "e", "a", "v", "y", " ", "w", "i", "t", "h", "o", "u", "t", " ", "c", "l", "e", "a", "r",
      " ", "h", "i", "e", "r", "a", "r", "c", "h", "y", ",", " ", "m", "a", "k", "i", "n", "g",
      " ", "i", "t", " ", "h", "a", "r", "d", " ", "t", "o", " ", "s", "c", "a", "n", " ", "q",
      "u", "i", "c", "k", "l", "y", ".">>

\* Contact information is not prominently visible in the main content.
IssueContact ==
    <<"C", "o", "n", "t", "a", "c", "t", " ", "i", "n", "f", "o", "r", "m", "a", "t", "i", "o",
      "n", " ", "i", "s", " ", "n", "o", "t", " ", "p", "r", "o", "m", "i", "n", "e", "n", "t",
      "l", "y", " ", "v", "i", "s", "i", "b", "l", "e", " ", "i", "n", " ", "t", "h", "e", " ",
      "m", "a", "i", "n", " ", "c", "o", "n", "t", "e", "n", "t", ".">>

\* No dedicated services section explaining what the business offers.
IssueServices ==
    <<"N", "o", " ", "d", "e", "d", "i", "c", "a", "t", "e", "d", " ", "s", "e", "r", "v", "i",
      "c", "e", "s", " ", "s", "e", "c", "t", "i", "o", "n", " ", "e", "x", "p", "l", "a", "i",
      "n", "i", "n", "g", " ", "w", "h", "a", "t", " ", "t", "h", "e", " ", "b", "u", "s", "i",
      "n", "e", "s", "s", " ", "o", "f", "f", "e", "r", "s", ".">>

\* ------------------------------------------------------ analyze_website
\* if len(homepage_text) < 200 ... elif len(homepage_text) > 2500
SparseBelow == 200
DenseAbove == 2500

\* return issues[:4]
MaxIssues == 4

\* fFailed: {hp_text[:50]}
StatusWidth == 50

\* seq[:n]
Slice(seq, n) == SubSeq(seq, 1, IF Len(seq) < n THEN Len(seq) ELSE n)

\* The length check with the upper limit left out: text-heavy whenever not sparse.
LengthCheckNoLimit(hp_text) ==
    IF Len(hp_text) < SparseBelow THEN <<IssueSparse>> ELSE <<IssueDense>>

\* if len(homepage_text) < 200: too sparse; elif len(homepage_text) > 2500: text-heavy
LengthCheck(hp_text) ==
    IF Len(hp_text) < SparseBelow
    THEN <<IssueSparse>>
    ELSE IF Len(hp_text) > DenseAbove
    THEN <<IssueDense>>
    ELSE <<>>

\* The checks with the differentiation sentence appended whether or not there is
\* a services text.
AppendedWithoutServicesTest(hp_text, srv_text) ==
    LET combined_text == lower(hp_text \o <<" ">> \o srv_text)
        has_value_prop == any(value_words, combined_text)
        has_cta == any(cta_words, combined_text)
        has_trust == any(trust_words, combined_text)
        has_diff == any(diff_words, combined_text)
        has_contact == any(contact_words, combined_text)
    IN  (IF ~has_value_prop THEN <<IssueValueProp>> ELSE <<>>)
        \o (IF ~has_cta THEN <<IssueCta>> ELSE <<>>)
        \o (IF ~has_trust THEN <<IssueTrust>> ELSE <<>>)
        \o (IF ~has_diff THEN <<IssueDifferentiation>> ELSE <<>>)
        \o LengthCheck(hp_text)
        \o (IF ~has_contact THEN <<IssueContact>> ELSE <<>>)
        \o (IF Len(srv_text) = 0 /\ ~In(<<"s", "e", "r", "v", "i", "c", "e">>, combined_text)
            THEN <<IssueServices>>
            ELSE <<>>)

\* The list issues before it is cut: one sentence appended per check that fails, in
\* the order of the checks.  company_name, website_url and niche are not used by
\* analyze_website.
Appended(hp_text, srv_text) ==
    LET combined_text == lower(hp_text \o <<" ">> \o srv_text)
        has_value_prop == any(value_words, combined_text)
        has_cta == any(cta_words, combined_text)
        has_trust == any(trust_words, combined_text)
        has_diff == any(diff_words, combined_text)
        has_contact == any(contact_words, combined_text)
    IN  (IF ~has_value_prop THEN <<IssueValueProp>> ELSE <<>>)
        \o (IF ~has_cta THEN <<IssueCta>> ELSE <<>>)
        \o (IF ~has_trust THEN <<IssueTrust>> ELSE <<>>)
        \o (IF ~has_diff /\ Len(srv_text) > 0 THEN <<IssueDifferentiation>> ELSE <<>>)
        \o LengthCheck(hp_text)
        \o (IF ~has_contact THEN <<IssueContact>> ELSE <<>>)
        \o (IF Len(srv_text) = 0 /\ ~In(<<"s", "e", "r", "v", "i", "c", "e">>, combined_text)
            THEN <<IssueServices>>
            ELSE <<>>)

\* The list returned whole, without issues[:4].
analyze_website_uncut(hp_text, srv_text) == Appended(hp_text, srv_text)

analyze_website(hp_text, srv_text) == Slice(Appended(hp_text, srv_text), MaxIssues)

\* ----------------------------------------------------- map_issue_to_key
\* map_issue_to_key's return None.
NoKey == "None"

\* The if/elif chain on issue.lower(): the first branch with a term that occurs wins.
map_issue_to_key(issue) ==
    LET issue_lower == lower(issue)
    IN  IF \/ In(<<"o", "u", "t", "c", "o", "m", "e">>, issue_lower)
           \/ In(<<"b", "e", "n", "e", "f", "i", "t">>, issue_lower)
           \/ In(<<"v", "a", "l", "u", "e">>, issue_lower)
        THEN "value_prop"
        ELSE IF \/ In(<<"c", "a", "l", "l", "-", "t", "o", "-", "a", "c", "t", "i", "o", "n">>, issue_lower)
                \/ In(<<"c", "t", "a">>, issue_lower)
                \/ In(<<"n", "e", "x", "t", " ", "s", "t", "e", "p">>, issue_lower)
        THEN "cta"
        ELSE IF \/ In(<<"t", "r", "u", "s", "t">>, issue_lower)
                \/ In(<<"t", "e", "s", "t", "i", "m", "o", "n", "i", "a", "l">>, issue_lower)
                \/ In(<<"c", "r", "e", "d", "e", "n", "t", "i", "a", "l">>, issue_lower)
        THEN "trust"
        ELSE IF \/ In(<<"d", "i", "f", "f", "e", "r", "e", "n", "t", "i", "a", "t", "i", "o", "n">>, issue_lower)
                \/ In(<<"s", "e", "t", "s">>, issue_lower)
                \/ In(<<"a", "p", "a", "r", "t">>, issue_lower)
        THEN "differentiation"
        ELSE IF \/ In(<<"s", "p", "a", "r", "s", "e">>, issue_lower)
                \/ In(<<"t", "o", "o", " ", "b", "r", "i", "e", "f">>, issue_lower)
                \/ In(<<"t", "o", "o", " ", "s", "h", "o", "r", "t">>, issue_lower)
        THEN "sparse"
        ELSE IF \/ In(<<"t", "e", "x", "t", "-", "h", "e", "a", "v", "y">>, issue_lower)
                \/ In(<<"h", "i", "e", "r", "a", "r", "c", "h", "y">>, issue_lower)
                \/ In(<<"d", "e", "n", "s", "e">>, issue_lower)
        THEN "dense"
        ELSE IF In(<<"c", "o", "n", "t", "a", "c", "t">>, issue_lower)
        THEN "contact"
        ELSE IF \/ In(<<"s", "e", "r", "v", "i", "c", "e", "s", " ", "s", "e", "c", "t", "i", "o", "n">>, issue_lower)
                \/ In(<<"d", "e", "d", "i", "c", "a", "t", "e", "d">>, issue_lower)
        THEN "services"
        ELSE NoKey

\* ISSUE_DATA: statement and impact per key.
\*   value_prop: The homepage explains what you do but not what clients get out of it / which makes it easy to scroll past
\*   cta: There is no obvious next step for someone ready to reach out / and that friction costs inquiries
\*   trust: There are no testimonials or proof of past work / so new leads have little reason to trust the business
\*   differentiation: Services are listed but nothing explains what makes you different / which weakens your position against competitors
\*   sparse: The homepage does not say enough to build confidence / so people leave before understanding the value
\*   dense: There is a lot of text but no clear structure / which buries the key points
\*   contact: Contact info is hard to find / adding friction for anyone ready to reach out
\*   services: There is no clear section explaining what you offer / leaving scope unclear
ISSUE_DATA ==
    [value_prop |->
        [statement |->
            <<"T", "h", "e", " ", "h", "o", "m", "e", "p", "a", "g", "e", " ", "e", "x", "p",
              "l", "a", "i", "n", "s", " ", "w", "h", "a", "t", " ", "y", "o", "u", " ", "d",
              "o", " ", "b", "u", "t", " ", "n", "o", "t", " ", "w", "h", "a", "t", " ", "c",
              "l", "i", "e", "n", "t", "s", " ", "g", "e", "t", " ", "o", "u", "t", " ", "o",
              "f", " ", "i", "t">>,
         impact |->
            <<"w", "h", "i", "c", "h", " ", "m", "a", "k", "e", "s", " ", "i", "t", " ", "e",
              "a", "s", "y", " ", "t", "o", " ", "s", "c", "r", "o", "l", "l", " ", "p", "a",
              "s", "t">>],
     cta |->
        [statement |->
            <<"T", "h", "e", "r", "e", " ", "i", "s", " ", "n", "o", " ", "o", "b", "v", "i",
              "o", "u", "s", " ", "n", "e", "x", "t", " ", "s", "t", "e", "p", " ", "f", "o",
              "r", " ", "s", "o", "m", "e", "o", "n", "e", " ", "r", "e", "a", "d", "y", " ",
              "t", "o", " ", "r", "e", "a", "c", "h", " ", "o", "u", "t">>,
         impact |->
            <<"a", "n", "d", " ", "t", "h", "a", "t", " ", "f", "r", "i", "c", "t", "i", "o",
              "n", " ", "c", "o", "s", "t", "s", " ", "i", "n", "q", "u", "i", "r", "i", "e",
              "s">>],
     trust |->
        [statement |->
            <<"T", "h", "e", "r", "e", " ", "a", "r", "e", " ", "n", "o", " ", "t", "e", "s",
              "t", "i", "m", "o", "n", "i", "a", "l", "s", " ", "o", "r", " ", "p", "r", "o",
              "o", "f", " ", "o", "f", " ", "p", "a", "s", "t", " ", "w", "o", "r", "k">>,
         impact |->
            <<"s", "o", " ", "n", "e", "w", " ", "l", "e", "a", "d", "s", " ", "h", "a", "v",
              "e", " ", "l", "i", "t", "t", "l", "e", " ", "r", "e", "a", "s", "o", "n", " ",
              "t", "o", " ", "t", "r", "u", "s", "t", " ", "t", "h", "e", " ", "b", "u", "s",
              "i", "n", "e", "s", "s">>],
     differentiation |->
        [statement |->
            <<"S", "e", "r", "v", "i", "c", "e", "s", " ", "a", "r", "e", " ", "l", "i", "s",
              "t", "e", "d", " ", "b", "u", "t", " ", "n", "o", "t", "h", "i", "n", "g", " ",
              "e", "x", "p", "l", "a", "i", "n", "s", " ", "w", "h", "a", "t", " ", "m", "a",
              "k", "e", "s", " ", "y", "o", "u", " ", "d", "i", "f", "f", "e", "r", "e", "n",
              "t">>,
         impact |->
            <<"w", "h", "i", "c", "h", " ", "w", "e", "a", "k", "e", "n", "s", " ", "y", "o",
              "u", "r", " ", "p", "o", "s", "i", "t", "i", "o", "n", " ", "a", "g", "a", "i",
              "n", "s", "t", " ", "c", "o", "m", "p", "e", "t", "i", "t", "o", "r", "s">>],
     sparse |->
        [statement |->
            <<"T", "h", "e", " ", "h", "o", "m", "e", "p", "a", "g", "e", " ", "d", "o", "e",
              "s", " ", "n", "o", "t", " ", "s", "a", "y", " ", "e", "n", "o", "u", "g", "h",
              " ", "t", "o", " ", "b", "u", "i", "l", "d", " ", "c", "o", "n", "f", "i", "d",
              "e", "n", "c", "e">>,
         impact |->
            <<"s", "o", " ", "p", "e", "o", "p", "l", "e", " ", "l", "e", "a", "v", "e", " ",
              "b", "e", "f", "o", "r", "e", " ", "u", "n", "d", "e", "r", "s", "t", "a", "n",
              "d", "i", "n", "g", " ", "t", "h", "e", " ", "v", "a", "l", "u", "e">>],
     dense |->
        [statement |->
            <<"T", "h", "e", "r", "e", " ", "i", "s", " ", "a", " ", "l", "o", "t", " ", "o",
              "f", " ", "t", "e", "x", "t", " ", "b", "u", "t", " ", "n", "o", " ", "c", "l",
              "e", "a", "r", " ", "s", "t", "r", "u", "c", "t", "u", "r", "e">>,
         impact |->
            <<"w", "h", "i", "c", "h", " ", "b", "u", "r", "i", "e", "s", " ", "t", "h", "e",
              " ", "k", "e", "y", " ", "p", "o", "i", "n", "t", "s">>],
     contact |->
        [statement |->
            <<"C", "o", "n", "t", "a", "c", "t", " ", "i", "n", "f", "o", " ", "i", "s", " ",
              "h", "a", "r", "d", " ", "t", "o", " ", "f", "i", "n", "d">>,
         impact |->
            <<"a", "d", "d", "i", "n", "g", " ", "f", "r", "i", "c", "t", "i", "o", "n", " ",
              "f", "o", "r", " ", "a", "n", "y", "o", "n", "e", " ", "r", "e", "a", "d", "y",
              " ", "t", "o", " ", "r", "e", "a", "c", "h", " ", "o", "u", "t">>],
     services |->
        [statement |->
            <<"T", "h", "e", "r", "e", " ", "i", "s", " ", "n", "o", " ", "c", "l", "e", "a",
              "r", " ", "s", "e", "c", "t", "i", "o", "n", " ", "e", "x", "p", "l", "a", "i",
              "n", "i", "n", "g", " ", "w", "h", "a", "t", " ", "y", "o", "u", " ", "o", "f",
              "f", "e", "r">>,
         impact |->
            <<"l", "e", "a", "v", "i", "n", "g", " ", "s", "c", "o", "p", "e", " ", "u", "n",
              "c", "l", "e", "a", "r">>]]

\* COMBINED_ISSUES: one authored narrative per listed pair of keys.
\*   (value_prop, cta): The homepage explains what you do but not the outcomes. There is also
\*       no clear next step. That combination makes it easy for leads to leave
\*       without acting.
\*   (value_prop, trust): The homepage focuses on services but not results, and there is no
\*       proof of past work. Both of those make it harder for someone new to
\*       reach out.
\*   (cta, trust): There is no obvious way to take the next step, and no testimonials to
\*       back up the claims. That tends to cost inquiries.
\*   (trust, differentiation): The site lacks proof of past work, and nothing explains what sets you
\*       apart. That makes the decision harder for anyone evaluating options.
\*   (sparse, cta): The homepage is thin on content and there is no clear call to action.
\*       People are leaving before they even consider reaching out.
\*   (dense, cta): There is a lot of text without structure, and no obvious next step.
\*       The key points get buried.
COMBINED_ISSUES ==
    (<<"value_prop", "cta">> :>
        <<"T", "h", "e", " ", "h", "o", "m", "e", "p", "a", "g", "e", " ", "e", "x", "p", "l",
          "a", "i", "n", "s", " ", "w", "h", "a", "t", " ", "y", "o", "u", " ", "d", "o", " ",
          "b", "u", "t", " ", "n", "o", "t", " ", "t", "h", "e", " ", "o", "u", "t", "c", "o",
          "m", "e", "s", ".", " ", "T", "h", "e", "r", "e", " ", "i", "s", " ", "a", "l", "s",
          "o", " ", "n", "o", " ", "c", "l", "e", "a", "r", " ", "n", "e", "x", "t", " ", "s",
          "t", "e", "p", ".", " ", "T", "h", "a", "t", " ", "c", "o", "m", "b", "i", "n", "a",
          "t", "i", "o", "n", " ", "m", "a", "k", "e", "s", " ", "i", "t", " ", "e", "a", "s",
          "y", " ", "f", "o", "r", " ", "l", "e", "a", "d", "s", " ", "t", "o", " ", "l", "e",
          "a", "v", "e", " ", "w", "i", "t", "h", "o", "u", "t", " ", "a", "c", "t", "i", "n",
          "g", ".">>)
    @@ (<<"value_prop", "trust">> :>
        <<"T", "h", "e", " ", "h", "o", "m", "e", "p", "a", "g", "e", " ", "f", "o", "c", "u",
          "s", "e", "s", " ", "o", "n", " ", "s", "e", "r", "v", "i", "c", "e", "s", " ", "b",
          "u", "t", " ", "n", "o", "t", " ", "r", "e", "s", "u", "l", "t", "s", ",", " ", "a",
          "n", "d", " ", "t", "h", "e", "r", "e", " ", "i", "s", " ", "n", "o", " ", "p", "r",
          "o", "o", "f", " ", "o", "f", " ", "p", "a", "s", "t", " ", "w", "o", "r", "k", ".",
          " ", "B", "o", "t", "h", " ", "o", "f", " ", "t", "h", "o", "s", "e", " ", "m", "a",
          "k", "e", " ", "i", "t", " ", "h", "a", "r", "d", "e", "r", " ", "f", "o", "r", " ",
          "s", "o", "m", "e", "o", "n", "e", " ", "n", "e", "w", " ", "t", "o", " ", "r", "e",
          "a", "c", "h", " ", "o", "u", "t", ".">>)
    @@ (<<"cta", "trust">> :>
        <<"T", "h", "e", "r", "e", " ", "i", "s", " ", "n", "o", " ", "o", "b", "v", "i", "o",
          "u", "s", " ", "w", "a", "y", " ", "t", "o", " ", "t", "a", "k", "e", " ", "t", "h",
          "e", " ", "n", "e", "x", "t", " ", "s", "t", "e", "p", ",", " ", "a", "n", "d", " ",
          "n", "o", " ", "t", "e", "s", "t", "i", "m", "o", "n", "i", "a", "l", "s", " ", "t",
          "o", " ", "b", "a", "c", "k", " ", "u", "p", " ", "t", "h", "e", " ", "c", "l", "a",
          "i", "m", "s", ".", " ", "T", "h", "a", "t", " ", "t", "e", "n", "d", "s", " ", "t",
          "o", " ", "c", "o", "s", "t", " ", "i", "n", "q", "u", "i", "r", "i", "e", "s", ".">>)
    @@ (<<"trust", "differentiation">> :>
        <<"T", "h", "e", " ", "s", "i", "t", "e", " ", "l", "a", "c", "k", "s", " ", "p", "r",
          "o", "o", "f", " ", "o", "f", " ", "p", "a", "s", "t", " ", "w", "o", "r", "k", ",",
          " ", "a", "n", "d", " ", "n", "o", "t", "h", "i", "n", "g", " ", "e", "x", "p", "l",
          "a", "i", "n", "s", " ", "w", "h", "a", "t", " ", "s", "e", "t", "s", " ", "y", "o",
          "u", " ", "a", "p", "a", "r", "t", ".", " ", "T", "h", "a", "t", " ", "m", "a", "k",
          "e", "s", " ", "t", "h", "e", " ", "d", "e", "c", "i", "s", "i", "o", "n", " ", "h",
          "a", "r", "d", "e", "r", " ", "f", "o", "r", " ", "a", "n", "y", "o", "n", "e", " ",
          "e", "v", "a", "l", "u", "a", "t", "i", "n", "g", " ", "o", "p", "t", "i", "o", "n",
          "s", ".">>)
    @@ (<<"sparse", "cta">> :>
        <<"T", "h", "e", " ", "h", "o", "m", "e", "p", "a", "g", "e", " ", "i", "s", " ", "t",
          "h", "i", "n", " ", "o", "n", " ", "c", "o", "n", "t", "e", "n", "t", " ", "a", "n",
          "d", " ", "t", "h", "e", "r", "e", " ", "i", "s", " ", "n", "o", " ", "c", "l", "e",
          "a", "r", " ", "c", "a", "l", "l", " ", "t", "o", " ", "a", "c", "t", "i", "o", "n",
          ".", " ", "P", "e", "o", "p", "l", "e", " ", "a", "r", "e", " ", "l", "e", "a", "v",
          "i", "n", "g", " ", "b", "e", "f", "o", "r", "e", " ", "t", "h", "e", "y", " ", "e",
          "v", "e", "n", " ", "c", "o", "n", "s", "i", "d", "e", "r", " ", "r", "e", "a", "c",
          "h", "i", "n", "g", " ", "o", "u", "t", ".">>)
    @@ (<<"dense", "cta">> :>
        <<"T", "h", "e", "r", "e", " ", "i", "s", " ", "a", " ", "l", "o", "t", " ", "o", "f",
          " ", "t", "e", "x", "t", " ", "w", "i", "t", "h", "o", "u", "t", " ", "s", "t", "r",
          "u", "c", "t", "u", "r", "e", ",", " ", "a", "n", "d", " ", "n", "o", " ", "o", "b",
          "v", "i", "o", "u", "s", " ", "n", "e", "x", "t", " ", "s", "t", "e", "p", ".", " ",
          "T", "h", "e", " ", "k", "e", "y", " ", "p", "o", "i", "n", "t", "s", " ", "g", "e",
          "t", " ", "b", "u", "r", "i", "e", "d", ".">>)

\* openings, in order:
\*     Looked at {company_name}'s site. There are a couple of things worth addressing.
\*     Went through {company_name}'s website. Two things could use attention.
\*     Checked out {company_name}'s site. Couple of quick notes.
\*     Looked at {company_name}'s website earlier. Worth flagging two things.
openings(company) ==
    <<<<"L", "o", "o", "k", "e", "d", " ", "a", "t", " ">> \o company \o <<"'", "s", " ", "s",
        "i", "t", "e", ".", " ", "T", "h", "e", "r", "e", " ", "a", "r", "e", " ", "a", " ",
        "c", "o", "u", "p", "l", "e", " ", "o", "f", " ", "t", "h", "i", "n", "g", "s", " ",
        "w", "o", "r", "t", "h", " ", "a", "d", "d", "r", "e", "s", "s", "i", "n", "g", ".">>,
      <<"W", "e", "n", "t", " ", "t", "h", "r", "o", "u", "g", "h", " ">> \o company \o <<"'",
        "s", " ", "w", "e", "b", "s", "i", "t", "e", ".", " ", "T", "w", "o", " ", "t", "h",
        "i", "n", "g", "s", " ", "c", "o", "u", "l", "d", " ", "u", "s", "e", " ", "a", "t",
        "t", "e", "n", "t", "i", "o", "n", ".">>,
      <<"C", "h", "e", "c", "k", "e", "d", " ", "o", "u", "t", " ">> \o company \o <<"'", "s",
        " ", "s", "i", "t", "e", ".", " ", "C", "o", "u", "p", "l", "e", " ", "o", "f", " ",
        "q", "u", "i", "c", "k", " ", "n", "o", "t", "e", "s", ".">>,
      <<"L", "o", "o", "k", "e", "d", " ", "a", "t", " ">> \o company \o <<"'", "s", " ", "w",
        "e", "b", "s", "i", "t", "e", " ", "e", "a", "r", "l", "i", "e", "r", ".", " ", "W",
        "o", "r", "t", "h", " ", "f", "l", "a", "g", "g", "i", "n", "g", " ", "t", "w", "o",
        " ", "t", "h", "i", "n", "g", "s", ".">>>>

\* ctas, in order:
\*     I can outline what I would fix first.
\*     Happy to send a short list of priorities.
\*     I can share a quick breakdown of changes.
\*     I have specific ideas if useful.
ctas ==
    <<<<"I", " ", "c", "a", "n", " ", "o", "u", "t", "l", "i", "n", "e", " ", "w", "h", "a",
        "t", " ", "I", " ", "w", "o", "u", "l", "d", " ", "f", "i", "x", " ", "f", "i", "r",
        "s", "t", ".">>,
      <<"H", "a", "p", "p", "y", " ", "t", "o", " ", "s", "e", "n", "d", " ", "a", " ", "s",
        "h", "o", "r", "t", " ", "l", "i", "s", "t", " ", "o", "f", " ", "p", "r", "i", "o",
        "r", "i", "t", "i", "e", "s", ".">>,
      <<"I", " ", "c", "a", "n", " ", "s", "h", "a", "r", "e", " ", "a", " ", "q", "u", "i",
        "c", "k", " ", "b", "r", "e", "a", "k", "d", "o", "w", "n", " ", "o", "f", " ", "c",
        "h", "a", "n", "g", "e", "s", ".">>,
      <<"I", " ", "h", "a", "v", "e", " ", "s", "p", "e", "c", "i", "f", "i", "c", " ", "i",
        "d", "e", "a", "s", " ", "i", "f", " ", "u", "s", "e", "f", "u", "l", ".">>>>

\* subjects, in order:
\*     Quick thought on {company_name}
\*     Re: {company_name}
\*     Your website
\*     {company_name}
subjects(company) ==
    <<<<"Q", "u", "i", "c", "k", " ", "t", "h", "o", "u", "g", "h", "t", " ", "o", "n",
        " ">> \o company,
      <<"R", "e", ":", " ">> \o company,
      <<"Y", "o", "u", "r", " ", "w", "e", "b", "s", "i", "t", "e">>,
      company>>

\* contexts, in order:
\*     In {niche}, first impressions close deals.
\*     Most {niche} leads decide fast. Clarity wins.
\*     {niche.capitalize()} clients reach out to whoever looks credible.
\*     Speed and trust matter in {niche}.
contexts(nich) ==
    <<<<"I", "n", " ">> \o nich \o <<",", " ", "f", "i", "r", "s", "t", " ", "i", "m", "p",
        "r", "e", "s", "s", "i", "o", "n", "s", " ", "c", "l", "o", "s", "e", " ", "d", "e",
        "a", "l", "s", ".">>,
      <<"M", "o", "s", "t", " ">> \o nich \o <<" ", "l", "e", "a", "d", "s", " ", "d", "e",
        "c", "i", "d", "e", " ", "f", "a", "s", "t", ".", " ", "C", "l", "a", "r", "i", "t",
        "y", " ", "w", "i", "n", "s", ".">>,
      capitalize(nich) \o <<" ", "c", "l", "i", "e", "n", "t", "s", " ", "r", "e", "a", "c",
        "h", " ", "o", "u", "t", " ", "t", "o", " ", "w", "h", "o", "e", "v", "e", "r", " ",
        "l", "o", "o", "k", "s", " ", "c", "r", "e", "d", "i", "b", "l", "e", ".">>,
      <<"S", "p", "e", "e", "d", " ", "a", "n", "d", " ", "t", "r", "u", "s", "t", " ", "m",
        "a", "t", "t", "e", "r", " ", "i", "n", " ">> \o nich \o <<".">>>>

\* ------------------------------------------------------- generate_email
\* hash(str): CPython keys its string hash with a secret drawn when the interpreter
\* starts (PYTHONHASHSEED): within one process it is a fixed function of the string,
\* in another process the same string hashes to another value; the empty string
\* hashes to 0 in every process.  Len(s) + hashseed stands for the keyed function.
hash(s) == IF Len(s) = 0 THEN 0 ELSE Len(s) + hashseed

\* pool[hash(...) % len(pool)]
Pick(pool, h) == pool[(h % Len(pool)) + 1]

\* The body's f-string: greeting, opening, narrative, context, call to action,
\* sign-off, separated by blank lines.
Body(opening, issue_text, context, cta) ==
    <<"H", "i", ",", "\n", "\n">> \o opening \o <<"\n", "\n">> \o issue_text
        \o <<"\n", "\n">> \o context \o <<"\n", "\n">> \o cta
        \o <<"\n", "\n", "B", "e", "s", "t">>

\* The foundation is there, but the messaging could work harder to convert interest
\* into inquiries.
FoundationText ==
    <<"T", "h", "e", " ", "f", "o", "u", "n", "d", "a", "t", "i", "o", "n", " ", "i", "s", " ",
      "t", "h", "e", "r", "e", ",", " ", "b", "u", "t", " ", "t", "h", "e", " ", "m", "e", "s",
      "s", "a", "g", "i", "n", "g", " ", "c", "o", "u", "l", "d", " ", "w", "o", "r", "k", " ",
      "h", "a", "r", "d", "e", "r", " ", "t", "o", " ", "c", "o", "n", "v", "e", "r", "t", " ",
      "i", "n", "t", "e", "r", "e", "s", "t", " ", "i", "n", "t", "o", " ", "i", "n", "q", "u",
      "i", "r", "i", "e", "s", ".">>

\* . That could be affecting how leads perceive the business.
FallbackTail ==
    <<".", " ", "T", "h", "a", "t", " ", "c", "o", "u", "l", "d", " ", "b", "e", " ", "a", "f",
      "f", "e", "c", "t", "i", "n", "g", " ", "h", "o", "w", " ", "l", "e", "a", "d", "s", " ",
      "p", "e", "r", "c", "e", "i", "v", "e", " ", "t", "h", "e", " ", "b", "u", "s", "i", "n",
      "e", "s", "s", ".">>

\* The elements a list holds.
Elements(seq) == {seq[k] : k \in 1..Len(seq)}

\* The loop with the duplicate test left out.
RECURSIVE MapIssuesNoDedup(_, _)
MapIssuesNoDedup(rest, mapped_keys) ==
    IF Len(rest) = 0
    THEN mapped_keys
    ELSE LET key == map_issue_to_key(Head(rest))
             added == IF key # NoKey
                      THEN Append(mapped_keys, key)
                      ELSE mapped_keys
         IN  IF Len(added) = 2
             THEN added
             ELSE MapIssuesNoDedup(Tail(rest), added)

\* The loop for issue in issues[:4] from the entry rest[1] on, with mapped_keys as
\* collected so far (used_keys holds the same keys): a key is appended when the
\* sentence maps to one that is not yet held, and the loop breaks at two keys.
RECURSIVE MapIssues(_, _)
MapIssues(rest, mapped_keys) ==
    IF Len(rest) = 0
    THEN mapped_keys
    ELSE LET key == map_issue_to_key(Head(rest))
             added == IF key # NoKey /\ key \notin Elements(mapped_keys)
                      THEN Append(mapped_keys, key)
                      ELSE mapped_keys
         IN  IF Len(added) = 2
             THEN added
             ELSE MapIssues(Tail(rest), added)

\* mapped_keys after the loop.
MappedKeys(iss) == MapIssues(Slice(iss, MaxIssues), <<>>)

\* A subscript that finds its key or index, and one that raises.
Returned(text) == [raised |-> "", text |-> text]
Raised(error) == [raised |-> error, text |-> <<>>]

\* f{i1['statement']}, {i1['impact']}.
OneIssue(i1) == i1.statement \o <<",", " ">> \o i1.impact \o <<".">>

\* f{i1['statement']}, {i1['impact']}. Also, {i2['statement'].lower()}, {i2['impact']}.
TwoIssues(i1, i2) ==
    i1.statement \o <<",", " ">> \o i1.impact
        \o <<".", " ", "A", "l", "s", "o", ",", " ">>
        \o lower(i2.statement) \o <<",", " ">> \o i2.impact \o <<".">>

\* The pair looked up as collected only, never reversed.
IssueTextNoReverse(iss) ==
    LET mapped_keys == MappedKeys(iss)
    IN  IF Len(mapped_keys) = 0
        THEN IF Len(iss) = 0
             THEN Raised("IndexError")
             ELSE Returned(rstrip(iss[1], ".") \o FallbackTail)
        ELSE IF Len(mapped_keys) = 2
        THEN LET pair == <<mapped_keys[1], mapped_keys[2]>>
             IN  IF pair \in DOMAIN COMBINED_ISSUES
                 THEN Returned(COMBINED_ISSUES[pair])
                 ELSE IF \E k \in 1..2 : mapped_keys[k] \notin DOMAIN ISSUE_DATA
                 THEN Raised("KeyError")
                 ELSE Returned(TwoIssues(ISSUE_DATA[mapped_keys[1]],
                                         ISSUE_DATA[mapped_keys[2]]))
        ELSE IF mapped_keys[1] \notin DOMAIN ISSUE_DATA
        THEN Raised("KeyError")
        ELSE Returned(OneIssue(ISSUE_DATA[mapped_keys[1]]))

\* issue_text, for a non-empty issues: the fallback on the raw first sentence when
\* no key was collected, the authored narrative of the pair (as collected or
\* reversed) or else the two statements joined when two were, the one statement
\* when one was.  issues[0] and ISSUE_DATA[key] raise when the index or key is missing.
IssueText(iss) ==
    LET mapped_keys == MappedKeys(iss)
    IN  IF Len(mapped_keys) = 0
        THEN IF Len(iss) = 0
             THEN Raised("IndexError")
             ELSE Returned(rstrip(iss[1], ".") \o FallbackTail)
        ELSE IF Len(mapped_keys) = 2
        THEN LET pair == <<mapped_keys[1], mapped_keys[2]>>
                 pair_rev == <<mapped_keys[2], mapped_keys[1]>>
             IN  IF pair \in DOMAIN COMBINED_ISSUES
                 THEN Returned(COMBINED_ISSUES[pair])
                 ELSE IF pair_rev \in DOMAIN COMBINED_ISSUES
                 THEN Returned(COMBINED_ISSUES[pair_rev])
                 ELSE IF \E k \in 1..2 : mapped_keys[k] \notin DOMAIN ISSUE_DATA
                 THEN Raised("KeyError")
                 ELSE Returned(TwoIssues(ISSUE_DATA[mapped_keys[1]],
                                         ISSUE_DATA[mapped_keys[2]]))
        ELSE IF mapped_keys[1] \notin DOMAIN ISSUE_DATA
        THEN Raised("KeyError")
        ELSE Returned(OneIssue(ISSUE_DATA[mapped_keys[1]]))

\* generate_email without its if not issues case.
generate_email_no_empty_case(company, nich, iss) ==
    LET issue_text == IssueText(iss)
    IN  IF issue_text.raised # ""
        THEN [raised |-> issue_text.raised, subject |-> <<>>, email_body |-> <<>>]
        ELSE [raised |-> "", subject |-> Pick(subjects(company), hash(company)),
              email_body |-> Body(Pick(openings(company), hash(company)), issue_text.text,
                                  Pick(contexts(nich), hash(company \o nich)),
                                  Pick(ctas, hash(company \o nich)))]

\* generate_email(company_name, niche, issues): (subject, email_body), or the
\* exception a subscript raised.
generate_email(company, nich, iss) ==
    LET opening == Pick(openings(company), hash(company))
        cta == Pick(ctas, hash(company \o nich))
        subject == Pick(subjects(company), hash(company))
        context == Pick(contexts(nich), hash(company \o nich))
    IN  IF Len(iss) = 0
        THEN [raised |-> "", subject |-> subject,
              email_body |-> Body(opening, FoundationText, context, cta)]
        ELSE LET issue_text == IssueText(iss)
             IN  IF issue_text.raised # ""
                 THEN [raised |-> issue_text.raised, subject |-> <<>>, email_body |-> <<>>]
                 ELSE [raised |-> "", subject |-> subject,
                       email_body |-> Body(opening, issue_text.text, context, cta)]

\* We are a plumbing company.
PlainText ==
    <<"W", "e", " ", "a", "r", "e", " ", "a", " ", "p", "l", "u", "m", "b", "i", "n", "g", " ",
      "c", "o", "m", "p", "a", "n", "y", ".">>

\* One word per vocabulary of analyze_website, as a page would write it:  Help, 
\* Book,  Award,  Unique,  Phone,  Service
Words ==
    <<<<" ", "H", "e", "l", "p">>, <<" ", "B", "o", "o", "k">>, <<" ", "A", "w", "a", "r",
      "d">>, <<" ", "U", "n", "i", "q", "u", "e">>, <<" ", "P", "h", "o", "n", "e">>, <<" ",
      "S", "e", "r", "v", "i", "c", "e">>>>

\* Drain cleaning and pipe repair.
ServicesPlain ==
    <<"D", "r", "a", "i", "n", " ", "c", "l", "e", "a", "n", "i", "n", "g", " ", "a", "n", "d",
      " ", "p", "i", "p", "e", " ", "r", "e", "p", "a", "i", "r", ".">>

\* Only we offer this service.
ServicesDistinct ==
    <<"O", "n", "l", "y", " ", "w", "e", " ", "o", "f", "f", "e", "r", " ", "t", "h", "i", "s",
      " ", "s", "e", "r", "v", "i", "c", "e", ".">>

\* A sentence that maps to sparse: The page is too brief.
TooBrief ==
    <<"T", "h", "e", " ", "p", "a", "g", "e", " ", "i", "s", " ", "t", "o", "o", " ", "b", "r",
      "i", "e", "f", ".">>

\* A sentence that maps to no key, ending in dots: Pages load slowly...
SlowPage ==
    <<"P", "a", "g", "e", "s", " ", "l", "o", "a", "d", " ", "s", "l", "o", "w", "l", "y", ".",
      ".", ".">>

\* Acme
Acme ==
    <<"A", "c", "m", "e">>

\* IT Services
ItServices ==
    <<"I", "T", " ", "S", "e", "r", "v", "i", "c", "e", "s">>

\* acme.com
AcmeUrl ==
    <<"a", "c", "m", "e", ".", "c", "o", "m">>

\* http://
HttpPrefix ==
    <<"h", "t", "t", "p", ":", "/", "/">>

\* https://
HttpsPrefix ==
    <<"h", "t", "t", "p", "s", ":", "/", "/">>

\* Error
ErrorMarker ==
    <<"E", "r", "r", "o", "r">>

\* fError scraping: {str(e)}
ErrorScraping ==
    <<"E", "r", "r", "o", "r", " ", "s", "c", "r", "a", "p", "i", "n", "g", ":", " ">>

\* str(e) of requests.TooManyRedirects: Exceeded 30 redirects.
TooManyRedirects ==
    <<"E", "x", "c", "e", "e", "d", "e", "d", " ", "3", "0", " ", "r", "e", "d", "i", "r", "e",
      "c", "t", "s", ".">>

\* str(e) of requests.ConnectionError for a host that does not resolve:
\* HTTPSConnectionPool(host='acme.com', port=443): Max retries exceeded with url: /
\* (Caused by NameResolutionError: Failed to resolve 'acme.com' ([Errno -2] Name or
\* service not known))
ResolveFailed ==
    <<"H", "T", "T", "P", "S", "C", "o", "n", "n", "e", "c", "t", "i", "o", "n", "P", "o", "o",
      "l", "(", "h", "o", "s", "t", "=", "'", "a", "c", "m", "e", ".", "c", "o", "m", "'", ",",
      " ", "p", "o", "r", "t", "=", "4", "4", "3", ")", ":", " ", "M", "a", "x", " ", "r", "e",
      "t", "r", "i", "e", "s", " ", "e", "x", "c", "e", "e", "d", "e", "d", " ", "w", "i", "t",
      "h", " ", "u", "r", "l", ":", " ", "/", " ", "(", "C", "a", "u", "s", "e", "d", " ", "b",
      "y", " ", "N", "a", "m", "e", "R", "e", "s", "o", "l", "u", "t", "i", "o", "n", "E", "r",
      "r", "o", "r", ":", " ", "F", "a", "i", "l", "e", "d", " ", "t", "o", " ", "r", "e", "s",
      "o", "l", "v", "e", " ", "'", "a", "c", "m", "e", ".", "c", "o", "m", "'", " ", "(", "[",
      "E", "r", "r", "n", "o", " ", "-", "2", "]", " ", "N", "a", "m", "e", " ", "o", "r", " ",
      "s", "e", "r", "v", "i", "c", "e", " ", "n", "o", "t", " ", "k", "n", "o", "w", "n", ")",
      ")">>

\* No URL
StatusNoUrl ==
    <<"N", "o", " ", "U", "R", "L">>

\* Success
StatusSuccess ==
    <<"S", "u", "c", "c", "e", "s", "s">>

\* Failed: 
StatusFailed ==
    <<"F", "a", "i", "l", "e", "d", ":", " ">>

\* Empty response
StatusEmpty ==
    <<"E", "m", "p", "t", "y", " ", "r", "e", "s", "p", "o", "n", "s", "e">>

\* ------------------------------------------------------- bounded inputs
\* seq[:n] of the filler-extended text: text followed by dots up to length n.
Padded(text, n) == text \o [i \in 1..(n - Len(text)) |-> "."]

\* PlainText followed by the words whose index is in S, in the order of Words.
RECURSIVE Mention(_, _)
Mention(S, k) ==
    IF k = 0
    THEN PlainText
    ELSE Mention(S, k - 1) \o (IF k \in S THEN Words[k] ELSE <<>>)

AllWords == 1..Len(Words)

\* Homepage texts: the empty text, the plain sentence with any choice of the words,
\* and the plain sentence without or with all words extended to each length next to
\* a threshold of the length check.
HomepageTexts ==
    {<<>>}
    \cup {Mention(S, Len(Words)) : S \in SUBSET AllWords}
    \cup {Padded(Mention(S, Len(Words)), n) :
              S \in {{}, AllWords},
              n \in {SparseBelow - 1, SparseBelow, DenseAbove, DenseAbove + 1}}

ServicesTexts == {<<>>, ServicesPlain, ServicesDistinct}

\* All sequences over S of length at most n.
SeqsUpTo(S, n) == UNION {[1..k -> S] : k \in 0..n}

\* The sentences analyze_website can append.
Sentences ==
    {IssueValueProp, IssueCta, IssueTrust, IssueDifferentiation, IssueSparse, IssueDense,
     IssueContact, IssueServices}

\* Issue lists handed to generate_email: every list of at most MaxListed sentences,
\* foreign ones included, and every list of at most MaxIssues over four of them.
AuditResults ==
    SeqsUpTo(Sentences \cup {TooBrief, SlowPage}, MaxListed)
    \cup SeqsUpTo({IssueValueProp, IssueSparse, IssueCta, SlowPage}, MaxIssues)

Companies == {<<>>, Acme}

Seeds == 0..MaxSeed

\* The store as init_database leaves it, with no scheduler.py running.
DispatchIdle ==
    /\ scheduled_emails = <<>>
    /\ email_log = <<>>
    /\ now = 0
    /\ lock = 0
    /\ pc = [c \in Coord |-> "absent"]
    /\ due_emails = [c \in Coord |-> <<>>]
    /\ results = [c \in Coord |-> <<>>]
    /\ config = [c \in Coord |-> FALSE]
    /\ attempts = [i \in 1..MaxTasks |-> 0]
    /\ faults = 0
    /\ config_errors = 0

\* ------------------------------------------- analyze_website on its inputs
InitAnalyze ==
    /\ DispatchIdle
    /\ company_name = Acme
    /\ niche = ItServices
    /\ homepage_text \in HomepageTexts
    /\ services_text \in ServicesTexts
    /\ issues = None
    /\ generated_result = None
    /\ hashseed = 0
    /\ outputs = {}
    /\ df = <<>>
    /\ batch_results = <<>>
    /\ analysed = {}

\* issues = analyze_website(company_name, website_url, niche, homepage_text, services_text)
Analyze ==
    /\ issues = None
    /\ issues' = Some(analyze_website(homepage_text, services_text))
    /\ UNCHANGED <<company_name, niche, homepage_text, services_text, generated_result,
                   hashseed, outputs, df, batch_results, analysed>>
    /\ UNCHANGED dispatchVars

SpecAnalyze == InitAnalyze /\ [][Analyze]_vars

\* --------------------------------------------- generate_email on its inputs
InitCompose ==
    /\ DispatchIdle
    /\ company_name \in Companies
    /\ niche = ItServices
    /\ homepage_text = <<>>
    /\ services_text = <<>>
    /\ issues \in {Some(iss) : iss \in AuditResults}
    /\ generated_result = None
    /\ hashseed \in Seeds
    /\ outputs = {}
    /\ df = <<>>
    /\ batch_results = <<>>
    /\ analysed = {}

\* subject, email_body = generate_email(company_name, niche, issues)
Compose ==
    /\ generated_result = None
    /\ generated_result' = Some(generate_email(company_name, niche, issues[1]))
    /\ UNCHANGED <<company_name, niche, homepage_text, services_text, issues, hashseed,
                   outputs, df, batch_results, analysed>>
    /\ UNCHANGED dispatchVars

SpecCompose == InitCompose /\ [][Compose]_vars

\* ------------------------------------- the session's two audit paths
\* What the site answers with: (homepage_text, services_text) of a page.
Pages ==
    {<<PlainText, <<>>>>, <<Mention(AllWords, Len(Words)), ServicesPlain>>}

\* scrape_website_text(url), for a non-empty url: the texts of the page, empty
\* texts for a page without text, or, from its except clause,
\* (fError scraping: {str(e)}, ).  It raises nothing itself.
scrape_website_text(url) ==
    Pages
    \cup {<<<<>>, <<>>>>}
    \cup {<<ErrorScraping \o e, <<>>>> : e \in {TooManyRedirects, ResolveFailed}}

\* The CSV's rows: Company Name and Website URL as str(...).strip() leaves them.
CsvRows == [company_name : Companies, website_url : {<<>>, AcmeUrl}, niche : {ItServices}]

InitAudit ==
    /\ DispatchIdle
    /\ company_name \in Companies
    /\ niche = ItServices
    /\ homepage_text \in {<<>>, PlainText}
    /\ services_text \in {<<>>, ServicesPlain}
    /\ issues = None
    /\ generated_result = None
    /\ hashseed \in Seeds
    /\ outputs = {}
    /\ df \in SeqsUpTo(CsvRows, MaxRows)
    /\ batch_results = <<>>
    /\ analysed = {}

\* The Analyze & Generate Email button handler: a missing company name or
\* homepage text shows an error; else the text is analysed, the e-mail generated
\* and the result stored in the session state.  (\E x \in {e} names the value of e.)
GenerateClicked ==
    /\ IF Len(company_name) = 0
       THEN UNCHANGED <<generated_result, outputs, analysed>>
       ELSE IF Len(homepage_text) = 0
       THEN UNCHANGED <<generated_result, outputs, analysed>>
       ELSE \E found \in {analyze_website(homepage_text, services_text)} :
            \E email \in {generate_email(company_name, niche, found)} :
                IF email.raised # ""
                THEN UNCHANGED <<generated_result, outputs, analysed>>
                ELSE /\ generated_result' =
                            Some([company_name |-> company_name, niche |-> niche,
                                  issues |-> found, subject |-> email.subject,
                                  email_body |-> email.email_body])
                     /\ outputs' = outputs \cup
                            {[company_name |-> company_name, niche |-> niche,
                              issues |-> found, subject |-> email.subject,
                              email_body |-> email.email_body]}
                     /\ analysed' = analysed \cup
                            {[path |-> "generate", company_name |-> company_name,
                              fetched |-> homepage_text, homepage_text |-> homepage_text,
                              scrape_status |-> <<>>]}
    /\ UNCHANGED <<company_name, niche, homepage_text, services_text, issues, hashseed, df,
                   batch_results>>
    /\ UNCHANGED dispatchVars

\* The Clear Result button handler.
ClearClicked ==
    /\ generated_result # None
    /\ generated_result' = None
    /\ UNCHANGED <<company_name, niche, homepage_text, services_text, issues, hashseed,
                   outputs, df, batch_results, analysed>>
    /\ UNCHANGED dispatchVars

\* str.replace(old, new) for one-character old and new.
replace(s, old, new) == [i \in 1..Len(s) |-> IF s[i] = old THEN new ELSE s[i]]

\* sep.join(items)
RECURSIVE join(_, _)
join(sep, items) ==
    IF Len(items) = 0
    THEN <<>>
    ELSE IF Len(items) = 1
    THEN items[1]
    ELSE items[1] \o sep \o join(sep, Tail(items))

\* ' | '.join(issues) if issues else 'None detected'
IssuesFound(found) ==
    IF Len(found) > 0
    THEN join(<<" ", "|", " ">>, found)
    ELSE <<"N", "o", "n", "e", " ", "d", "e", "t", "e", "c", "t", "e", "d">>

\* if web_url and not web_url.startswith(('http://', 'https://')): 'https://' + web_url
Normalized(web_url) ==
    IF Len(web_url) > 0 /\ ~startswith(web_url, HttpPrefix) /\ ~startswith(web_url, HttpsPrefix)
    THEN HttpsPrefix \o web_url
    ELSE web_url

\* scrape_status as the row's branches set it.
ScrapeStatus(web_url, hp_text) ==
    IF Len(web_url) = 0
    THEN StatusNoUrl
    ELSE IF Len(hp_text) > 0 /\ ~startswith(hp_text, ErrorMarker)
    THEN StatusSuccess
    ELSE IF Len(hp_text) > 0
    THEN StatusFailed \o Slice(hp_text, StatusWidth)
    ELSE StatusEmpty

\* One iteration of the Process All Leads loop, on the first row still to be
\* processed: the row's fields are read, the page is fetched when there is a URL,
\* the status is set, and hp_text as fetched goes to analyze_website and its issues
\* to generate_email; the row's result is appended.  (The loop's except clause,
\* which resets hp_text, is never entered: scrape_website_text catches its own
\* exceptions.)
ProcessLead ==
    /\ Len(df) > 0
    /\ LET comp_name == Head(df).company_name
           web_url == Normalized(Head(df).website_url)
           comp_niche == Head(df).niche
       IN  \E scraped \in (IF Len(web_url) > 0
                           THEN scrape_website_text(web_url)
                           ELSE {<<<<>>, <<>>>>}) :
               \E hp_text \in {scraped[1]}, srv_text \in {scraped[2]} :
               \E found \in {analyze_website(hp_text, srv_text)} :
               \E email \in {generate_email(comp_name, comp_niche, found)} :
                   /\ email.raised = ""
                   /\ batch_results' =
                          Append(batch_results,
                                 [company_name |-> comp_name, website |-> web_url,
                                  niche |-> comp_niche,
                                  scrape_status |-> ScrapeStatus(web_url, hp_text),
                                  issues_found |-> IssuesFound(found),
                                  subject |-> email.subject,
                                  email_body |-> replace(email.email_body, "\n", " ")])
                   /\ outputs' = outputs \cup
                          {[company_name |-> comp_name, niche |-> comp_niche,
                            issues |-> found, subject |-> email.subject,
                            email_body |-> email.email_body]}
                   /\ analysed' = analysed \cup
                          {[path |-> "batch", company_name |-> comp_name,
                            fetched |-> scraped[1], homepage_text |-> hp_text,
                            scrape_status |-> ScrapeStatus(web_url, hp_text)]}
    /\ df' = Tail(df)
    /\ UNCHANGED <<company_name, niche, homepage_text, services_text, issues,
                   generated_result, hashseed>>
    /\ UNCHANGED dispatchVars

\* The app's process is started again: a new interpreter with its own hash secret,
\* and a session state that starts empty.
Restart ==
    /\ \E seed \in Seeds : hashseed' = seed
    /\ generated_result' = None
    /\ batch_results' = <<>>
    /\ UNCHANGED <<company_name, niche, homepage_text, services_text, issues, outputs, df,
                   analysed>>
    /\ UNCHANGED dispatchVars

NextAudit ==
    \/ GenerateClicked
    \/ ClearClicked
    \/ ProcessLead
    \/ Restart

SpecAudit == InitAudit /\ [][NextAudit]_vars

\* ---------------------------------------------- properties of the audit
\* C11: every sentence analyze_website returns maps, by map_issue_to_key, to its
\* own key (value-prop to value_prop, CTA to cta, trust to trust, differentiation
\* to differentiation, too-sparse to sparse, text-heavy to dense, contact to
\* contact, no-services-section to services), so two different sentences of one
\* result never map to the same key.
C11_SentencesKeepTheirOwnKeys ==
    issues # None =>
        LET found == issues[1]
            own == (IssueValueProp :> "value_prop") @@ (IssueCta :> "cta")
                   @@ (IssueTrust :> "trust")
                   @@ (IssueDifferentiation :> "differentiation")
                   @@ (IssueSparse :> "sparse") @@ (IssueDense :> "dense")
                   @@ (IssueContact :> "contact") @@ (IssueServices :> "services")
        IN  /\ \A k \in 1..Len(found) : map_issue_to_key(found[k]) = own[found[k]]
            /\ \A j, k \in 1..Len(found) :
                   found[j] # found[k] =>
                       map_issue_to_key(found[j]) # map_issue_to_key(found[k])

\* C12: generate_email is deterministic in (company, niche, issues): any two calls
\* with the same arguments, in the same or in different runs of the app, give the
\* same subject and the same body.
C12_SameArgumentsSameEmail ==
    \A a, b \in outputs :
        (a.company_name = b.company_name /\ a.niche = b.niche /\ a.issues = b.issues)
            => (a.subject = b.subject /\ a.email_body = b.email_body)

\* C13: when no CTA vocabulary term occurs in the combined text, the list returned
\* by analyze_website contains the CTA-absence sentence; and every returned list
\* has at most 4 sentences, in the fixed order value-prop, CTA, trust,
\* differentiation, length (too sparse or text-heavy), contact, services.
C13_CtaSentenceAtMostFourInOrder ==
    issues # None =>
        LET found == issues[1]
            combined_text == lower(homepage_text \o <<" ">> \o services_text)
            place == (IssueValueProp :> 1) @@ (IssueCta :> 2) @@ (IssueTrust :> 3)
                     @@ (IssueDifferentiation :> 4) @@ (IssueSparse :> 5)
                     @@ (IssueDense :> 5) @@ (IssueContact :> 6) @@ (IssueServices :> 7)
        IN  /\ (\A k \in 1..Len(cta_words) : ~In(cta_words[k], combined_text))
                   => \E k \in 1..Len(found) : found[k] = IssueCta
            /\ Len(found) <= 4
            /\ \A k \in 1..Len(found) : found[k] \in DOMAIN place
            /\ \A j, k \in 1..Len(found) : j < k => place[found[j]] < place[found[k]]

\* C13 witness: a text without any CTA term was analysed, the list kept its CTA
\* sentence and more than 4 checks had failed.
C13_Witness ==
    /\ issues # None
    /\ ~any(cta_words, lower(homepage_text \o <<" ">> \o services_text))
    /\ \E k \in 1..Len(issues[1]) : issues[1][k] = IssueCta
    /\ Len(Appended(homepage_text, services_text)) > MaxIssues
    /\ Len(issues[1]) = MaxIssues

\* C14: analyze_website never returns both the too-sparse and the text-heavy
\* sentence, and for a homepage of 200 to 2500 characters it returns neither.
C14_LengthSentencesExclusive ==
    issues # None =>
        LET found == issues[1]
            sparse == \E k \in 1..Len(found) : found[k] = IssueSparse
            heavy == \E k \in 1..Len(found) : found[k] = IssueDense
        IN  /\ ~(sparse /\ heavy)
            /\ (Len(homepage_text) >= 200 /\ Len(homepage_text) <= 2500)
                   => (~sparse /\ ~heavy)

\* C14 witness: a homepage of exactly 2500 characters was analysed and the list
\* was not cut, so a length sentence would show.
C14_Witness ==
    /\ issues # None
    /\ Len(homepage_text) = DenseAbove
    /\ Len(Appended(homepage_text, services_text)) < MaxIssues
    /\ \A k \in 1..Len(issues[1]) : issues[1][k] \notin {IssueSparse, IssueDense}

\* C15: the keys generate_email collects are the first (at most 2) distinct keys of
\* the issue sentences, in the order in which they are first seen: a sentence
\* without a key is skipped, a key already collected is not added again, and the
\* collection ends at 2 keys or at the end of the list.
C15_FirstTwoDistinctKeys ==
    issues # None =>
        LET iss == issues[1]
            key == [k \in 1..Len(iss) |-> map_issue_to_key(iss[k])]
            first == {k \in 1..Len(iss) :
                         key[k] # NoKey /\ \A j \in 1..(k - 1) : key[j] # key[k]}
            held == IF Cardinality(first) < 2 THEN Cardinality(first) ELSE 2
            mapped_keys == MappedKeys(iss)
        IN  /\ Len(mapped_keys) = held
            /\ \A m \in 1..held :
                   \E k \in first :
                       /\ Cardinality({j \in first : j < k}) = m - 1
                       /\ mapped_keys[m] = key[k]

\* C15 witness: an e-mail was composed from a list that starts with a sentence
\* without a key and repeats a key before its second distinct key.
C15_Witness ==
    /\ generated_result # None
    /\ issues # None
    /\ Len(issues[1]) = MaxIssues
    /\ map_issue_to_key(issues[1][1]) = NoKey
    /\ map_issue_to_key(issues[1][2]) = map_issue_to_key(issues[1][3])
    /\ map_issue_to_key(issues[1][2]) # NoKey
    /\ map_issue_to_key(issues[1][4]) \notin {NoKey, map_issue_to_key(issues[1][2])}
    /\ MappedKeys(issues[1])
           = <<map_issue_to_key(issues[1][2]), map_issue_to_key(issues[1][4])>>

\* C16: when 2 keys are collected and COMBINED_ISSUES has an entry for the pair in
\* either order, the narrative of the e-mail is that entry, verbatim; the joined
\* text {stmt1}, {impact1}. Also, {stmt2 lower-cased}, {impact2}. is the narrative
\* only when the pair has no entry in either order.
C16_AuthoredPairNarrativeWins ==
    (issues # None /\ generated_result # None /\ Len(MappedKeys(issues[1])) = 2) =>
        LET mapped_keys == MappedKeys(issues[1])
            pairs == {<<mapped_keys[1], mapped_keys[2]>>, <<mapped_keys[2], mapped_keys[1]>>}
            authored == {COMBINED_ISSUES[p] : p \in pairs \cap DOMAIN COMBINED_ISSUES}
            i1 == ISSUE_DATA[mapped_keys[1]]
            i2 == ISSUE_DATA[mapped_keys[2]]
            joined == i1.statement \o <<",", " ">> \o i1.impact
                          \o <<".", " ", "A", "l", "s", "o", ",", " ">>
                          \o lower(i2.statement) \o <<",", " ">> \o i2.impact \o <<".">>
            used == IF authored # {} THEN authored ELSE {joined}
        IN  /\ generated_result[1].raised = ""
            /\ \E narrative \in used :
               \E opening \in Elements(openings(company_name)), cta \in Elements(ctas),
                  context \in Elements(contexts(niche)) :
                   generated_result[1].email_body = Body(opening, narrative, context, cta)

\* C16 witness: an e-mail was composed for two keys whose pair has an entry only
\* in the order opposite to the one in which they were collected.
C16_Witness ==
    /\ issues # None
    /\ generated_result # None
    /\ Len(MappedKeys(issues[1])) = 2
    /\ <<MappedKeys(issues[1])[1], MappedKeys(issues[1])[2]>> \notin DOMAIN COMBINED_ISSUES
    /\ <<MappedKeys(issues[1])[2], MappedKeys(issues[1])[1]>> \in DOMAIN COMBINED_ISSUES
    /\ generated_result[1].raised = ""

\* C17: generate_email never raises for a list of 0 to 4 sentences: for the empty
\* list the narrative is the fixed foundation is there text; for a non-empty
\* list in which no sentence has a key it is the first sentence, without its
\* trailing full stops, followed by the generic tail.
C17_NoIssueAndNoKeyFallBack ==
    (issues # None /\ generated_result # None) =>
        LET iss == issues[1]
            first == iss[1]
            kept == CHOOSE n \in 0..Len(first) :
                        /\ \A k \in (n + 1)..Len(first) : first[k] = "."
                        /\ (n > 0 => first[n] # ".")
            HasNarrative(narrative) ==
                \E opening \in Elements(openings(company_name)), cta \in Elements(ctas),
                   context \in Elements(contexts(niche)) :
                    generated_result[1].email_body = Body(opening, narrative, context, cta)
        IN  /\ generated_result[1].raised = ""
            /\ Len(iss) = 0 => HasNarrative(FoundationText)
            /\ (Len(iss) > 0 /\ \A k \in 1..Len(iss) : map_issue_to_key(iss[k]) = NoKey)
                   => HasNarrative(SubSeq(first, 1, kept) \o FallbackTail)

\* C17 witness: an e-mail was composed from a non-empty list in which no sentence
\* has a key.
C17_Witness ==
    /\ issues # None
    /\ generated_result # None
    /\ Len(issues[1]) > 1
    /\ \A k \in 1..Len(issues[1]) : map_issue_to_key(issues[1][k]) = NoKey
    /\ generated_result[1].raised = ""

\* C18: when the fetch of a row's page fails and returns a string that starts with
\* the error marker, the row is analysed with empty homepage text, never with the
\* error string, and the Scrape Status of the row keeps the error string.
C18_FetchErrorAnalysedAsEmpty ==
    \A a \in analysed :
        (a.path = "batch" /\ startswith(a.fetched, ErrorMarker)) =>
            /\ a.homepage_text = <<>>
            /\ a.scrape_status = StatusFailed \o a.fetched

\* C19: on the generate action and on every row of the bulk import, an input with
\* a missing company name or an empty homepage text is rejected before
\* analyze_website or generate_email runs, and no result is stored for it.
C19_MissingInputRejected ==
    /\ \A a \in analysed : Len(a.company_name) > 0 /\ Len(a.homepage_text) > 0
    /\ generated_result # None => Len(generated_result[1].company_name) > 0
    /\ \A k \in 1..Len(batch_results) :
           /\ Len(batch_results[k].company_name) > 0
           /\ batch_results[k].scrape_status \notin {StatusNoUrl, StatusEmpty}

\* C22: analyze_website returns the first 4, in the order of the checks, of the
\* sentences that fire, where the value-prop, CTA, trust and contact sentences fire
\* iff no term of their vocabulary occurs in the lower-cased text of homepage and
\* services; the differentiation sentence iff no differentiation term occurs and
\* the services text is not empty; the length check fires too-sparse iff the
\* homepage has fewer than 200 characters, else text-heavy iff it has more than
\* 2500; the services sentence iff the services text is empty and service does
\* not occur in the text.
C22_FirstFourOfTheFiredSentences ==
    issues # None =>
        LET text == lower(homepage_text \o <<" ">> \o services_text)
            Absent(words) == \A k \in 1..Len(words) : ~In(words[k], text)
            checks ==
                <<[fires |-> Absent(value_words), sentence |-> IssueValueProp],
                  [fires |-> Absent(cta_words), sentence |-> IssueCta],
                  [fires |-> Absent(trust_words), sentence |-> IssueTrust],
                  [fires |-> Absent(diff_words) /\ services_text # <<>>,
                   sentence |-> IssueDifferentiation],
                  [fires |-> Len(homepage_text) < 200 \/ Len(homepage_text) > 2500,
                   sentence |-> IF Len(homepage_text) < 200
                                THEN IssueSparse
                                ELSE IssueDense],
                  [fires |-> Absent(contact_words), sentence |-> IssueContact],
                  [fires |-> services_text = <<>>
                             /\ ~In(<<"s", "e", "r", "v", "i", "c", "e">>, text),
                   sentence |-> IssueServices]>>
            fired == SelectSeq(checks, LAMBDA ch : ch.fires)
            kept == IF Len(fired) < 4 THEN Len(fired) ELSE 4
        IN  /\ Len(issues[1]) = kept
            /\ \A k \in 1..kept : issues[1][k] = fired[k].sentence

\* C22 witness: a homepage with a services text was analysed, six checks fired and
\* the list ends with the differentiation sentence, the fourth.
C22_Witness ==
    /\ issues # None
    /\ services_text # <<>>
    /\ Len(Appended(homepage_text, services_text)) = 6
    /\ Len(issues[1]) = MaxIssues
    /\ issues[1][MaxIssues] = IssueDifferentiation

\* ------------------------------------- properties of the coordinator loop
\* The rows the poll under way has handed to send_email: the entries of the batch
\* that have a result, and the entry of a call that has not returned.
Handed(c) ==
    {due_emails[c][k] : k \in 1..Len(results[c])}
        \cup (IF pc[c] = "hung" THEN {Current(c)} ELSE {})

\* C21: whenever the coordinator process is stopped, at most one task has been
\* handed to the transport without its terminal status and log entry being in the
\* store: every task delivered earlier in the batch is already recorded.
C21_AtMostOneUnrecordedAtStop ==
    [][\A c \in Coord :
          (pc[c] # "stopped" /\ pc'[c] = "stopped") =>
              Cardinality({i \in Handed(c) :
                              \/ scheduled_emails'[i].status = Pending
                              \/ \A k \in 1..Len(email_log') : email_log'[k].email # i})
                  <= 1]_vars

\* C23: the coordinator loop keeps polling until it is interrupted from outside:
\* an error raised inside a poll (by the store or by the configuration) does not
\* end the loop, which sleeps and polls again; only an interrupt stops it.
C23_LoopEndsOnlyByInterrupt ==
    /\ [][\A c \in Coord :
             /\ (pc[c] # "stopped" /\ pc'[c] = "stopped") => Interrupt(c)
             /\ (StoreError(c) \/ ConfigError(c)) => pc'[c] = "sleep"]_vars
    /\ \A c \in Coord : []<>(pc[c] \in {"sleep", "absent"})

\* C24: with a single coordinator, in every committed state of the store the
\* statuses and the log entries of scheduled sends agree: a task is not Pending if
\* and only if exactly one log entry of a scheduled send has been committed for it,
\* and a Pending task has none (a batch commits its status updates and its log
\* inserts together, or neither).
C24_StatusAndLogAgree ==
    \A i \in Rows :
        /\ Status(i) # Pending <=> Cardinality(LogOf(i)) = 1
        /\ Status(i) = Pending => LogOf(i) = {}
        /\ \A k \in LogOf(i) :
               email_log[k].status \in {"Yes (Scheduled)", "Failed (Scheduled)"}

\* C24 witness: one task is recorded with its log entry while another, handed to
\* the transport in a poll that did not reach its commit, is Pending without one.
C24_Witness ==
    \E i, j \in Rows :
        /\ Status(i) # Pending
        /\ Cardinality(LogOf(i)) = 1
        /\ Status(j) = Pending
        /\ attempts[j] > 0
        /\ faults > 0
        /\ ~InBatch(j)
====
